---- MODULE Spec2Model ----
(***************************************************************************)
(* Model of the movie application's server: the storage layer              *)
(* (DatabaseStorage), the authorization middleware (authenticateToken)     *)
(* and the route handlers registered by registerRoutes.                    *)
(*                                                                         *)
(* Every handler is an async function; one action of the model is the      *)
(* code that runs between two awaits.  Two requests are in flight at most, *)
(* and their steps interleave freely; under SeqSpec requests do not        *)
(* overlap.                                                                *)
(***************************************************************************)
EXTENDS Integers, Sequences, FiniteSets, TLC

VARIABLES
    users,            \* table users
    savedMovies,      \* table saved_movies
    userWatchlists,   \* table user_watchlists
    watchlistMovies,  \* table watchlist_movies
    serial,           \* last value of each table's serial id sequence
    TMDB_API_KEY,     \* process.env.TMDB_API_KEY ("" when not configured)
    rq,               \* rq[r]: the HTTP request held by slot r
    pc,               \* pc[r]: the await at which request r is suspended
    auth,             \* auth[r]: outcome of authenticateToken for request r
    user,             \* user[r]: req.user.id (NoUser while not attached)
    loc,              \* loc[r]: local constants of the running handler
    status            \* status[r]: the HTTP status sent (NoStatus before)

tables == <<users, savedMovies, userWatchlists, watchlistMovies, serial>>
ownership == <<savedMovies, userWatchlists, watchlistMovies>>
vars == <<users, savedMovies, userWatchlists, watchlistMovies, serial,
          TMDB_API_KEY, rq, pc, auth, user, loc, status>>

----------------------------------------------------------------------------
(* Bounds of the model *)

MaxUsers == 2        \* inserts into users attempted under RegSpec
MaxSaved == 2        \* rows ever inserted into saved_movies
MaxAuthRows == 2     \* rows inserted into the ownership tables under AuthSpec
MaxWlRows == 3       \* rows inserted into the watchlist tables under WlSpec

Reqs == {"r1", "r2"}

----------------------------------------------------------------------------
(* Values *)

NoUser == 0          \* req.user undefined / decoded.userId of no token
NoStatus == 0        \* no response sent yet
NaN == -1            \* parseInt of a segment that does not start with a digit

MovieIds == {"m1", "m2"}
Digits == <<"0", "1", "2", "3", "4", "5", "6", "7", "8", "9">>

----------------------------------------------------------------------------
(* shared/schema.ts: request schemas (zod) *)

\* z.string().email(): one "@", a non-empty local part, a dotted domain
IsEmail(e) ==
    /\ Len(e) >= 5
    /\ Cardinality({i \in 1 .. Len(e) : e[i] = "@"}) = 1
    /\ e[1] # "@" /\ e[1] # "."
    /\ \E i \in 2 .. Len(e) - 3 :
          /\ e[i] = "@"
          /\ e[i + 1] # "."
          /\ \E j \in i + 2 .. Len(e) - 1 : e[j] = "." /\ e[Len(e)] # "."

registerSchema(body) ==
    /\ Len(body.username) >= 3
    /\ IsEmail(body.email)
    /\ Len(body.password) >= 6

\* (mutation) the schema without the bounds of rating
saveMovieSchema_AnyRating(body) ==
    /\ Len(body.movieId) >= 1
    /\ Len(body.title) >= 1
    /\ body.listType \in {"absent", "favorites", "watchlist"}

\* saveMovieSchema: movieId and title non-empty, rating absent (the empty set)
\* or in 1..10, listType one of the enum values or absent
saveMovieSchema(body) ==
    /\ Len(body.movieId) >= 1
    /\ Len(body.title) >= 1
    /\ \A x \in body.rating : x >= 1 /\ x <= 10
    /\ body.listType \in {"absent", "favorites", "watchlist"}

\* listType: z.enum([...]).default("favorites")
saveMovieListType(body) ==
    IF body.listType = "absent" THEN "favorites" ELSE body.listType

createWatchlistSchema(body) == Len(body.name) >= 1

loginSchema(body) == IsEmail(body.email) /\ Len(body.password) >= 1

addToWatchlistSchema(body) ==
    /\ body.watchlistId >= 1
    /\ Len(body.movieId) >= 1
    /\ Len(body.title) >= 1

----------------------------------------------------------------------------
(* jsonwebtoken and the Authorization header *)

\* a token: the signed payload's userId and what jwt.verify finds
JWTs == {[sub |-> u, st |-> "ok"] : u \in 1 .. MaxUsers + 1}
          \cup {[sub |-> 1, st |-> "badsig"], [sub |-> 1, st |-> "expired"]}

\* the header split at blanks: absent, "Bearer" alone, "Bearer <token>"
Headers == {<< >>, <<"Bearer">>} \cup {<<"Bearer", t>> : t \in JWTs}

\* authHeader && authHeader.split(' ')[1]
HasToken(header) == Len(header) >= 2
TokenOf(header) == header[2]

\* (mutation) a verify that checks the signature but not the expiry
jwtVerifyOk_IgnoreExpiry(token) == token.st \in {"ok", "expired"}

\* jwt.verify(token, JWT_SECRET): throws unless signed and unexpired
jwtVerifyOk(token) == token.st = "ok"

\* jwt.sign({userId, email}, JWT_SECRET, {expiresIn: '7d'})
jwtSign(userId) == [sub |-> userId, st |-> "ok"]

----------------------------------------------------------------------------
(* DatabaseStorage: each operation is one SQL statement.  A select is the   *)
(* set of rows it returns; `[row] = await ...` is the emptiness test.       *)

\* .orderBy(desc(column)): the rows as a sequence, latest timestamp first;
\* at[row] is the row's value in the column
OrderByDesc(rows, at) ==
    CHOOSE s \in [1 .. Cardinality(rows) -> rows] :
        /\ \A row \in rows : \E i \in DOMAIN s : s[i] = row
        /\ \A i, j \in DOMAIN s : i < j => at[s[i]] >= at[s[j]]

getUser(id) == {u \in users : u.id = id}
\* (mutation) the username looked up in the email column
getUserByUsername_WrongColumn(username) == {u \in users : u.email = username}

getUserByUsername(username) == {u \in users : u.username = username}
getUserByEmail(email) == {u \in users : u.email = email}

\* (mutation) the users table without its UNIQUE constraints
usersUniqueViolated_Off(row) == FALSE

\* the UNIQUE constraints of users.username and users.email
usersUniqueViolated(row) ==
    \E u \in users : u.username = row.username \/ u.email = row.email

isMovieSaved(userId, movieId, listType) ==
    {m \in savedMovies :
        m.userId = userId /\ m.movieId = movieId /\ m.listType = listType} # {}

getSavedMovies(userId, listType) ==
    OrderByDesc({m \in savedMovies :
                    m.userId = userId /\ m.listType = listType},
                [m \in savedMovies |-> m.createdAt])

\* (mutation) a delete that stops at the first matching row
removeSavedMovie_FirstOnly(userId, movieId, listType) ==
    LET hit == {m \in savedMovies :
                   /\ m.userId = userId /\ m.movieId = movieId
                   /\ m.listType = listType}
    IN  IF hit = {} THEN savedMovies
        ELSE savedMovies \ {CHOOSE m \in hit : \A o \in hit : m.id <= o.id}

\* rows left by the delete of removeSavedMovie
removeSavedMovie(userId, movieId, listType) ==
    {m \in savedMovies :
        ~(m.userId = userId /\ m.movieId = movieId /\ m.listType = listType)}

\* (mutation) a UNIQUE constraint on (user_id, movie_id, list_type): the
\* insert of an existing tuple adds no row
saveMovie_UniqueTuple(id, movie) ==
    IF \E m \in savedMovies :
          /\ m.userId = movie.userId /\ m.movieId = movie.movieId
          /\ m.listType = movie.listType
    THEN savedMovies
    ELSE savedMovies \cup {[id |-> id, userId |-> movie.userId,
                            movieId |-> movie.movieId,
                            listType |-> movie.listType, createdAt |-> id]}

\* table after the insert of saveMovie: no constraint but the primary key.
\* created_at / added_at take defaultNow(): the inserts into one table take
\* increasing timestamps, for which the model writes the serial number
saveMovie(id, movie) ==
    savedMovies \cup {[id |-> id, userId |-> movie.userId,
                       movieId |-> movie.movieId, listType |-> movie.listType,
                       createdAt |-> id]}

getWatchlist(id) == {w \in userWatchlists : w.id = id}

\* (mutation) the listing without the user_id condition
getUserWatchlists_AllUsers(userId) ==
    OrderByDesc(userWatchlists, [w \in userWatchlists |-> w.createdAt])

getUserWatchlists(userId) ==
    OrderByDesc({w \in userWatchlists : w.userId = userId},
                [w \in userWatchlists |-> w.createdAt])

\* (mutation) a delete by id alone
deleteWatchlist_AnyOwner(id, userId) == {w \in userWatchlists : w.id # id}

\* rows left by the delete of deleteWatchlist
deleteWatchlist(id, userId) ==
    {w \in userWatchlists : ~(w.id = id /\ w.userId = userId)}

\* (mutation) an id column that takes the lowest id not in use
createWatchlist_LowestFreeId(id, watchlist) ==
    userWatchlists \cup
        {[id |-> CHOOSE i \in 1 .. id :
                    /\ \A w \in userWatchlists : w.id # i
                    /\ \A j \in 1 .. i - 1 : \E w \in userWatchlists : w.id = j,
          userId |-> watchlist.userId, isPublic |-> watchlist.isPublic,
          createdAt |-> id]}

\* table after the insert of createWatchlist; the row takes the next value of
\* the serial id
createWatchlist(id, watchlist) ==
    userWatchlists \cup {[id |-> id, userId |-> watchlist.userId,
                          isPublic |-> watchlist.isPublic, createdAt |-> id]}

\* (mutation) the listing in ascending order of added_at
getWatchlistMovies_OldestFirst(watchlistId) ==
    LET s == OrderByDesc({m \in watchlistMovies : m.watchlistId = watchlistId},
                         [m \in watchlistMovies |-> m.addedAt])
    IN  [i \in DOMAIN s |-> s[Len(s) + 1 - i]]

getWatchlistMovies(watchlistId) ==
    OrderByDesc({m \in watchlistMovies : m.watchlistId = watchlistId},
                [m \in watchlistMovies |-> m.addedAt])

\* (mutation) a delete that matches on the watchlist alone
removeMovieFromWatchlist_AnyMovie(watchlistId, movieId) ==
    {m \in watchlistMovies : m.watchlistId # watchlistId}

\* rows left by the delete of removeMovieFromWatchlist
removeMovieFromWatchlist(watchlistId, movieId) ==
    {m \in watchlistMovies :
        ~(m.watchlistId = watchlistId /\ m.movieId = movieId)}
addMovieToWatchlist(id, movie) ==
    watchlistMovies \cup {[id |-> id, watchlistId |-> movie.watchlistId,
                           movieId |-> movie.movieId, addedAt |-> id]}

----------------------------------------------------------------------------
(* Requests *)

\* (mutation) DELETE /api/watchlists/:id registered without the middleware
ProtectedKinds_DeleteOpen ==
    {"save", "listSaved", "removeSaved", "profile", "createWl", "listWl",
     "getWl", "addWlMovie", "removeWlMovie"}

\* routes registered with authenticateToken in front of the handler
ProtectedKinds == {"save", "listSaved", "removeSaved", "profile", "createWl",
                   "listWl", "getWl", "deleteWl", "addWlMovie", "removeWlMovie"}

\* a request with every part absent
Blank ==
    [kind |-> "none", header |-> << >>, movieId |-> "", title |-> "",
     rating |-> {}, listType |-> "absent", idParam |-> << >>, name |-> "",
     isPublic |-> FALSE, bodyId |-> 0, username |-> "", email |-> << >>,
     password |-> "", q |-> << >>, genre |-> "", year |-> ""]

\* no token in a response
NoToken == [sub |-> NoUser, st |-> "none"]

\* no reply of the upstream catalog received
NoReply == [ok |-> FALSE, text |-> << >>]

\* decoded: the payload's userId; wl, usr: the rows a lookup returned; todo:
\* the pending calls of Promise.all; hash: the hashed password; token, body:
\* the token and the rows of the JSON response; calls: the upstream requests
\* made; upstream: the reply of the catalog; message: the message of an
\* error response ("" where the model leaves the text out)
\* the stats object of a profile response
NoStats == [favoriteCount |-> 0, watchlistCount |-> 0]

NoLoc ==
    [decoded |-> NoUser, wl |-> {}, usr |-> {}, todo |-> {}, hash |-> << >>,
     token |-> NoToken, body |-> << >>, calls |-> << >>, upstream |-> NoReply,
     message |-> "", favorites |-> << >>, counts |-> {}, stats |-> NoStats]

\* parseInt(req.params.id): the leading decimal digits, NaN if there are none
RECURSIVE DigitsValue(_, _)
DigitsValue(s, acc) ==
    IF s = << >> \/ ~(\E d \in 1 .. 10 : Digits[d] = s[1])
    THEN acc
    ELSE DigitsValue(Tail(s),
                     acc * 10 + ((CHOOSE d \in 1 .. 10 : Digits[d] = s[1]) - 1))

parseInt(s) ==
    IF s = << >> \/ ~(\E d \in 1 .. 10 : Digits[d] = s[1])
    THEN NaN
    ELSE DigitsValue(s, 0)

\* bcrypt.hash(password, 10): cost, random salt, digest of the password
Salts == {"s1", "s2"}
bcryptHash(password, salt) == <<"$2b$10", salt, password>>

\* (mutation) a compare that hashes with one fixed salt
bcryptCompare_FixedSalt(password, hash) == bcryptHash(password, "s1") = hash

\* bcrypt.compare(password, hash): hashes the password with the salt stored
\* in the hash and compares
bcryptCompare(password, hash) == bcryptHash(password, hash[2]) = hash

InFlight(r) == pc[r] \notin {"idle", "done"}
Pending(kind) == Cardinality({r \in Reqs : InFlight(r) /\ rq[r].kind = kind})

\* the model admits a request only while its table's bound leaves room for
\* the row it may insert
Admit(q, cap) ==
    /\ q.kind = "save" => serial.saved + Pending("save") < cap.saved
    /\ q.kind = "register" => serial.users + Pending("register") < cap.users
    /\ q.kind \in {"save", "createWl", "addWlMovie"} =>
          serial.saved + serial.wl + serial.wm + Pending("save")
            + Pending("createWl") + Pending("addWlMovie") < cap.total

Respond(r, code) ==
    /\ status' = [status EXCEPT ![r] = code]
    /\ pc' = [pc EXCEPT ![r] = "done"]

Goto(r, label) ==
    /\ pc' = [pc EXCEPT ![r] = label]
    /\ UNCHANGED status

----------------------------------------------------------------------------
(* authenticateToken *)

\* A request arrives.  On a protected route the middleware runs up to its
\* first await: 401 without a token, 403 when jwt.verify throws.
Start(r, population, cap) ==
    /\ ~InFlight(r)
    /\ \E q \in population :
        /\ Admit(q, cap)
        /\ rq' = [rq EXCEPT ![r] = q]
        /\ user' = [user EXCEPT ![r] = NoUser]
        /\ IF q.kind \notin ProtectedKinds
           THEN /\ auth' = [auth EXCEPT ![r] = "none"]
                /\ loc' = [loc EXCEPT ![r] = NoLoc]
                /\ pc' = [pc EXCEPT ![r] = "route"]
                /\ status' = [status EXCEPT ![r] = NoStatus]
           ELSE IF ~HasToken(q.header)
           THEN /\ auth' = [auth EXCEPT ![r] = "NoToken"]
                /\ loc' = [loc EXCEPT ![r] = NoLoc]
                /\ Respond(r, 401)
           ELSE IF ~jwtVerifyOk(TokenOf(q.header))
           THEN /\ auth' = [auth EXCEPT ![r] = "Invalid"]
                /\ loc' = [loc EXCEPT ![r] = NoLoc]
                /\ Respond(r, 403)
           ELSE /\ auth' = [auth EXCEPT ![r] = "pending"]
                /\ loc' = [loc EXCEPT ![r] =
                             [NoLoc EXCEPT !.decoded = TokenOf(q.header).sub]]
                /\ pc' = [pc EXCEPT ![r] = "auth_getUser"]
                /\ status' = [status EXCEPT ![r] = NoStatus]
    /\ UNCHANGED <<tables, TMDB_API_KEY>>

\* storage.getUser(decoded.userId) resolves: 401 if there is no row,
\* otherwise req.user = user and next()
AuthGetUser(r) ==
    /\ pc[r] = "auth_getUser"
    /\ IF getUser(loc[r].decoded) = {}
       THEN /\ auth' = [auth EXCEPT ![r] = "NotFound"]
            /\ Respond(r, 401)
            /\ UNCHANGED user
       ELSE /\ auth' = [auth EXCEPT ![r] = "Authenticated"]
            /\ user' = [user EXCEPT ![r] =
                          (CHOOSE u \in getUser(loc[r].decoded) : TRUE).id]
            /\ Goto(r, "route")
    /\ UNCHANGED <<tables, TMDB_API_KEY, rq, loc>>

\* storage.getUser rejects: the catch of the middleware answers 403
AuthGetUserFail(r) ==
    /\ pc[r] = "auth_getUser"
    /\ auth' = [auth EXCEPT ![r] = "LookupFailed"]
    /\ Respond(r, 403)
    /\ UNCHANGED <<tables, TMDB_API_KEY, rq, loc, user>>

----------------------------------------------------------------------------
(* registerRoutes: the handlers *)

\* the listType that isMovieSaved, getSavedMovies and removeSavedMovie take
\* when the caller passes none
DefaultListType == "favorites"

\* (mutation) the query parameter ignored
queryListType_Ignored(q) == DefaultListType

\* req.query.listType as string || "favorites"
queryListType(q) == IF q.listType = "absent" THEN DefaultListType ELSE q.listType

\* the body handed to addToWatchlistSchema: {...req.body, watchlistId}
addToWatchlistBody(q) ==
    [watchlistId |-> parseInt(q.idParam), movieId |-> q.movieId,
     title |-> q.title]

\* what a handler answers before its first await: 400, or nothing
EntryStatus(q) ==
    CASE q.kind = "register" ->
            IF registerSchema(q) THEN NoStatus ELSE 400
      [] q.kind = "login" ->
            IF loginSchema(q) THEN NoStatus ELSE 400
      [] q.kind = "save" ->
            IF saveMovieSchema(q) THEN NoStatus ELSE 400
      [] q.kind = "createWl" ->
            IF createWatchlistSchema(q) THEN NoStatus ELSE 400
      [] q.kind \in {"getWl", "deleteWl", "removeWlMovie"} ->
            IF parseInt(q.idParam) = NaN THEN 400 ELSE NoStatus
      [] q.kind = "addWlMovie" ->
            IF parseInt(q.idParam) = NaN THEN 400
            ELSE IF addToWatchlistSchema(addToWatchlistBody(q))
                 THEN NoStatus ELSE 400
      [] OTHER -> NoStatus

\* the first storage call of each handler
FirstAwait(kind) ==
    CASE kind = "register" -> "rg_getUserByEmail"
      [] kind = "login" -> "lg_getUserByEmail"
      [] kind = "save" -> "sv_isMovieSaved"
      [] kind = "listSaved" -> "ls_getSavedMovies"
      [] kind = "removeSaved" -> "rs_removeSavedMovie"
      [] kind = "profile" -> "pf_getUser"
      [] kind = "createWl" -> "cw_createWatchlist"
      [] kind = "listWl" -> "lw_getUserWatchlists"
      [] kind = "getWl" -> "gw_getWatchlist"
      [] kind = "deleteWl" -> "dw_deleteWatchlist"
      [] kind = "addWlMovie" -> "aw_getWatchlist"
      [] kind = "removeWlMovie" -> "rw_getWatchlist"

\* the awaits of the handlers (inside their try blocks)
HandlerAwaits ==
    {"rg_getUserByEmail", "rg_getUserByUsername", "rg_hash", "rg_createUser",
     "lg_getUserByEmail", "lg_compare", "ct_fetch", "ct_json",
     "sv_isMovieSaved", "sv_saveMovie", "ls_getSavedMovies",
     "rs_removeSavedMovie", "pf_getUser", "pf_getSavedMovies",
     "pf_getUserWatchlists", "pf_getWatchlistMovies", "cw_createWatchlist",
     "lw_getUserWatchlists", "gw_getWatchlist", "gw_getWatchlistMovies",
     "dw_deleteWatchlist", "aw_getWatchlist", "aw_addMovieToWatchlist",
     "rw_getWatchlist", "rw_removeMovieFromWatchlist"}

\* the two routes that forward to the catalog
CatalogKinds == {"search", "genres"}

\* the handler runs up to its first await
HandlerEntry(r) ==
    /\ pc[r] = "route"
    /\ rq[r].kind \notin CatalogKinds
    /\ IF EntryStatus(rq[r]) # NoStatus
       THEN Respond(r, EntryStatus(rq[r]))
       ELSE Goto(r, FirstAwait(rq[r].kind))
    /\ UNCHANGED <<tables, TMDB_API_KEY, rq, auth, user, loc>>

\* the message each handler's catch sends with status 500
FailureMessage(kind) ==
    CASE kind = "register" -> "Failed to register user"
      [] kind = "login" -> "Failed to login"
      [] kind = "search" -> "Failed to search movies"
      [] kind = "genres" -> "Failed to fetch genres"
      [] kind = "save" -> "Failed to save movie"
      [] kind = "listSaved" -> "Failed to fetch saved movies"
      [] kind = "profile" -> "Failed to fetch user profile"
      [] kind = "removeSaved" -> "Failed to remove saved movie"
      [] kind = "createWl" -> "Failed to create watchlist"
      [] kind = "listWl" -> "Failed to fetch watchlists"
      [] kind = "getWl" -> "Failed to fetch watchlist"
      [] kind = "deleteWl" -> "Failed to delete watchlist"
      [] kind = "addWlMovie" -> "Failed to add movie to watchlist"
      [] kind = "removeWlMovie" -> "Failed to remove movie from watchlist"

\* (mutation) a handler without its catch: the exception leaves the handler
\* and nothing is sent
Caught_Unhandled(r) ==
    /\ pc' = [pc EXCEPT ![r] = "done"]
    /\ UNCHANGED <<status, loc>>

\* the catch of the handler of request r answers
Caught(r) ==
    /\ loc' = [loc EXCEPT ![r].message = FailureMessage(rq[r].kind)]
    /\ Respond(r, 500)

\* an awaited storage, bcrypt or fetch call rejects: the handler's catch
\* answers 500
StorageFail(r) ==
    /\ pc[r] \in HandlerAwaits
    /\ Caught(r)
    /\ UNCHANGED <<tables, TMDB_API_KEY, rq, auth, user>>

(* POST /api/auth/register *)

RegisterGetUserByEmail(r) ==
    /\ pc[r] = "rg_getUserByEmail"
    /\ IF getUserByEmail(rq[r].email) # {}
       THEN Respond(r, 409)
       ELSE Goto(r, "rg_getUserByUsername")
    /\ UNCHANGED <<tables, TMDB_API_KEY, rq, auth, user, loc>>

RegisterGetUserByUsername(r) ==
    /\ pc[r] = "rg_getUserByUsername"
    /\ IF getUserByUsername(rq[r].username) # {}
       THEN Respond(r, 409)
       ELSE Goto(r, "rg_hash")
    /\ UNCHANGED <<tables, TMDB_API_KEY, rq, auth, user, loc>>

RegisterHash(r) ==
    /\ pc[r] = "rg_hash"
    /\ \E salt \in Salts :
          loc' = [loc EXCEPT ![r].hash = bcryptHash(rq[r].password, salt)]
    /\ Goto(r, "rg_createUser")
    /\ UNCHANGED <<tables, TMDB_API_KEY, rq, auth, user>>

\* {...validation.data, password: hashedPassword}
RegisterValues(r) ==
    [username |-> rq[r].username, email |-> rq[r].email,
     password |-> loc[r].hash]

\* status sent when the insert into users throws on a UNIQUE constraint:
\* the handler's catch
RegisterConflictStatus == 500

\* user: {id: user.id, email: user.email, username: user.username}
PublicUser(u) == [id |-> u.id, email |-> u.email, username |-> u.username]

\* storage.createUser: the insert takes the next serial id and throws when
\* a UNIQUE constraint is violated; the response carries the token signed for
\* the new row
RegisterCreateUser(r) ==
    /\ pc[r] = "rg_createUser"
    /\ serial' = [serial EXCEPT !.users = @ + 1]
    /\ IF usersUniqueViolated(RegisterValues(r))
       THEN /\ Respond(r, RegisterConflictStatus)
            /\ loc' = [loc EXCEPT ![r].message = FailureMessage("register")]
            /\ UNCHANGED users
       ELSE LET row == [id |-> serial.users + 1,
                        username |-> RegisterValues(r).username,
                        email |-> RegisterValues(r).email,
                        password |-> RegisterValues(r).password]
            IN  /\ users' = users \cup {row}
                /\ loc' = [loc EXCEPT ![r].token = jwtSign(row.id),
                                      ![r].body = <<PublicUser(row)>>]
                /\ Respond(r, 201)
    /\ UNCHANGED <<ownership, TMDB_API_KEY, rq, auth, user>>

(* POST /api/auth/login *)

\* (mutation) an unknown email answered with a message of its own
LoginGetUserByEmail_UserNotFound(r) ==
    /\ pc[r] = "lg_getUserByEmail"
    /\ IF getUserByEmail(rq[r].email) = {}
       THEN /\ loc' = [loc EXCEPT ![r].message = "User not found"]
            /\ Respond(r, 401)
       ELSE /\ loc' = [loc EXCEPT ![r].usr = getUserByEmail(rq[r].email)]
            /\ Goto(r, "lg_compare")
    /\ UNCHANGED <<tables, TMDB_API_KEY, rq, auth, user>>

LoginGetUserByEmail(r) ==
    /\ pc[r] = "lg_getUserByEmail"
    /\ IF getUserByEmail(rq[r].email) = {}
       THEN /\ loc' = [loc EXCEPT ![r].message = "Invalid email or password"]
            /\ Respond(r, 401)
       ELSE /\ loc' = [loc EXCEPT ![r].usr = getUserByEmail(rq[r].email)]
            /\ Goto(r, "lg_compare")
    /\ UNCHANGED <<tables, TMDB_API_KEY, rq, auth, user>>

\* bcrypt.compare resolves: 401 on a mismatch, otherwise the token is signed
\* and sent with status 200
LoginCompare(r) ==
    /\ pc[r] = "lg_compare"
    /\ LET u == CHOOSE u \in loc[r].usr : TRUE IN
          IF ~bcryptCompare(rq[r].password, u.password)
          THEN /\ loc' = [loc EXCEPT ![r].message = "Invalid email or password"]
               /\ Respond(r, 401)
          ELSE /\ loc' = [loc EXCEPT ![r].token = jwtSign(u.id),
                                     ![r].body = <<PublicUser(u)>>]
               /\ Respond(r, 200)
    /\ UNCHANGED <<tables, TMDB_API_KEY, rq, auth, user>>

(* GET /api/movies/search, GET /api/movies/genres *)

ApiKeys == {"", "k"}

\* String.prototype.trim on a sequence of characters
RECURSIVE TrimStart(_)
TrimStart(s) == IF s # << >> /\ s[1] = " " THEN TrimStart(Tail(s)) ELSE s

RECURSIVE TrimEnd(_)
TrimEnd(s) ==
    IF s # << >> /\ s[Len(s)] = " "
    THEN TrimEnd(SubSeq(s, 1, Len(s) - 1)) ELSE s

trim(s) == TrimEnd(TrimStart(s))

\* (mutation) the discover branch tested before the text search
SearchUrl_DiscoverFirst(q) ==
    IF q.genre # "" \/ q.year # "" THEN "discover/movie"
    ELSE IF q.q # << >> /\ trim(q.q) # << >> THEN "search/movie"
    ELSE "movie/popular"

\* the upstream endpoint the search handler chooses
SearchUrl(q) ==
    IF q.q # << >> /\ trim(q.q) # << >> THEN "search/movie"
    ELSE IF q.genre # "" \/ q.year # "" THEN "discover/movie"
    ELSE "movie/popular"

CatalogUrl(q) == IF q.kind = "search" THEN SearchUrl(q) ELSE "genre/movie/list"

\* bodies the catalog may send: JSON, JSON with blanks between the tokens,
\* and text that is no JSON
UpstreamTexts ==
    {<<"{", "\"results\"", ":", "[", "]", "}">>,
     <<"{", " ", "\"results\"", ":", " ", "[", "]", " ", "}">>,
     <<"<html>">>}

\* what fetch resolves with: response.ok and the body
UpstreamReplies ==
    {[ok |-> o, text |-> t] : o \in BOOLEAN, t \in UpstreamTexts}

\* JSON text without the insignificant blanks
RECURSIVE Compact(_)
Compact(text) ==
    IF text = << >> THEN << >>
    ELSE IF text[1] = " " THEN Compact(Tail(text))
    ELSE <<text[1]>> \o Compact(Tail(text))

\* response.json(): rejects unless the body starts a JSON object or array;
\* the parsed value is written as its compact text
IsJson(text) == Compact(text) # << >> /\ Compact(text)[1] \in {"{", "["}
responseJson(text) == Compact(text)

\* res.json(data): JSON.stringify of the value
resJson(data) == data

\* the handler up to its fetch: 500 without an API key, otherwise one
\* request to the catalog
CatalogEntry(r) ==
    /\ pc[r] = "route"
    /\ rq[r].kind \in CatalogKinds
    /\ IF TMDB_API_KEY = ""
       THEN /\ loc' = [loc EXCEPT ![r].message = "TMDB API key not configured"]
            /\ Respond(r, 500)
       ELSE /\ loc' = [loc EXCEPT ![r].calls = Append(@, CatalogUrl(rq[r]))]
            /\ Goto(r, "ct_fetch")
    /\ UNCHANGED <<tables, TMDB_API_KEY, rq, auth, user>>

\* fetch resolves: a reply that is not ok throws, and the catch answers 500
CatalogFetch(r) ==
    /\ pc[r] = "ct_fetch"
    /\ \E reply \in UpstreamReplies :
          IF ~reply.ok
          THEN /\ loc' = [loc EXCEPT ![r].upstream = reply,
                                     ![r].message = FailureMessage(rq[r].kind)]
               /\ Respond(r, 500)
          ELSE /\ loc' = [loc EXCEPT ![r].upstream = reply]
               /\ Goto(r, "ct_json")
    /\ UNCHANGED <<tables, TMDB_API_KEY, rq, auth, user>>

\* response.json() settles: the parsed body is sent, or the catch answers 500
CatalogJson(r) ==
    /\ pc[r] = "ct_json"
    /\ IF ~IsJson(loc[r].upstream.text)
       THEN Caught(r)
       ELSE /\ loc' = [loc EXCEPT ![r].body =
                          resJson(responseJson(loc[r].upstream.text))]
            /\ Respond(r, 200)
    /\ UNCHANGED <<tables, TMDB_API_KEY, rq, auth, user>>

(* POST /api/movies/save *)

\* (mutation) the pre-check left out
SaveAlreadySaved_Never(r) == FALSE

\* storage.isMovieSaved(req.user!.id, validation.data.movieId)
SaveAlreadySaved(r) == isMovieSaved(user[r], rq[r].movieId, DefaultListType)

SaveIsMovieSaved(r) ==
    /\ pc[r] = "sv_isMovieSaved"
    /\ IF SaveAlreadySaved(r)
       THEN Respond(r, 409)
       ELSE Goto(r, "sv_saveMovie")
    /\ UNCHANGED <<tables, TMDB_API_KEY, rq, auth, user, loc>>

\* (mutation) the spread written last: a userId of the body wins
SaveValues_BodyUser(r) ==
    [userId |-> IF rq[r].bodyId # 0 THEN rq[r].bodyId ELSE user[r],
     movieId |-> rq[r].movieId, listType |-> saveMovieListType(rq[r])]

\* {...validation.data, userId: req.user!.id}
SaveValues(r) ==
    [userId |-> user[r], movieId |-> rq[r].movieId,
     listType |-> saveMovieListType(rq[r])]

SaveSaveMovie(r) ==
    /\ pc[r] = "sv_saveMovie"
    /\ savedMovies' = saveMovie(serial.saved + 1, SaveValues(r))
    /\ serial' = [serial EXCEPT !.saved = @ + 1]
    /\ Respond(r, 201)
    /\ UNCHANGED <<users, userWatchlists, watchlistMovies, TMDB_API_KEY, rq, auth, user, loc>>

(* GET /api/movies/saved *)

ListSavedGetSavedMovies(r) ==
    /\ pc[r] = "ls_getSavedMovies"
    /\ loc' = [loc EXCEPT ![r].body =
                  getSavedMovies(user[r], queryListType(rq[r]))]
    /\ Respond(r, 200)
    /\ UNCHANGED <<tables, TMDB_API_KEY, rq, auth, user>>

(* DELETE /api/movies/saved/:movieId *)

RemoveSavedRemoveSavedMovie(r) ==
    /\ pc[r] = "rs_removeSavedMovie"
    /\ savedMovies' =
          removeSavedMovie(user[r], rq[r].movieId, queryListType(rq[r]))
    /\ IF savedMovies' = savedMovies
       THEN Respond(r, 404)
       ELSE Respond(r, 200)
    /\ UNCHANGED <<users, userWatchlists, watchlistMovies, serial, TMDB_API_KEY, rq, auth,
                   user, loc>>

(* GET /api/user/profile *)

ProfileGetUser(r) ==
    /\ pc[r] = "pf_getUser"
    /\ IF getUser(user[r]) = {}
       THEN /\ Respond(r, 404)
            /\ UNCHANGED loc
       ELSE /\ loc' = [loc EXCEPT ![r].usr = getUser(user[r])]
            /\ Goto(r, "pf_getSavedMovies")
    /\ UNCHANGED <<tables, TMDB_API_KEY, rq, auth, user>>

ProfileGetSavedMovies(r) ==
    /\ pc[r] = "pf_getSavedMovies"
    /\ loc' = [loc EXCEPT ![r].favorites = getSavedMovies(user[r], "favorites")]
    /\ Goto(r, "pf_getUserWatchlists")
    /\ UNCHANGED <<tables, TMDB_API_KEY, rq, auth, user>>

\* stats: {favoriteCount: favorites.length, watchlistCount: watchlists.length}
ProfileStats(favorites, watchlists) ==
    [favoriteCount |-> Len(favorites), watchlistCount |-> Len(watchlists)]

\* getUserWatchlists resolves; Promise.all starts one getWatchlistMovies per
\* watchlist (none: the response is sent); the body holds the watchlists
ProfileGetUserWatchlists(r) ==
    /\ pc[r] = "pf_getUserWatchlists"
    /\ LET watchlists == getUserWatchlists(user[r]) IN
          /\ loc' = [loc EXCEPT
                        ![r].todo = {watchlists[i].id : i \in DOMAIN watchlists},
                        ![r].body = watchlists,
                        ![r].stats = IF Len(watchlists) = 0
                                     THEN ProfileStats(loc[r].favorites, watchlists)
                                     ELSE @]
          /\ IF Len(watchlists) = 0
             THEN Respond(r, 200)
             ELSE Goto(r, "pf_getWatchlistMovies")
    /\ UNCHANGED <<tables, TMDB_API_KEY, rq, auth, user>>

\* one of the pending getWatchlistMovies resolves and its callback returns
\* {...watchlist, movieCount: movies.length}; after the last one the response
\* is sent
ProfileGetWatchlistMovies(r) ==
    /\ pc[r] = "pf_getWatchlistMovies"
    /\ \E w \in loc[r].todo :
          LET movies == getWatchlistMovies(w) IN
          /\ loc' = [loc EXCEPT
                        ![r].todo = @ \ {w},
                        ![r].counts = @ \cup {[id |-> w, movieCount |-> Len(movies)]},
                        ![r].stats = IF loc[r].todo = {w}
                                     THEN ProfileStats(loc[r].favorites, loc[r].body)
                                     ELSE @]
          /\ IF loc[r].todo = {w}
             THEN Respond(r, 200)
             ELSE Goto(r, "pf_getWatchlistMovies")
    /\ UNCHANGED <<tables, TMDB_API_KEY, rq, auth, user>>

(* POST /api/watchlists *)

\* {...validation.data, userId: req.user!.id}
CreateWatchlistValues(r) == [userId |-> user[r], isPublic |-> rq[r].isPublic]

CreateWatchlistInsert(r) ==
    /\ pc[r] = "cw_createWatchlist"
    /\ userWatchlists' = createWatchlist(serial.wl + 1, CreateWatchlistValues(r))
    /\ serial' = [serial EXCEPT !.wl = @ + 1]
    /\ Respond(r, 201)
    /\ UNCHANGED <<users, savedMovies, watchlistMovies, TMDB_API_KEY, rq, auth, user, loc>>

(* GET /api/watchlists *)

ListWatchlistsGetUserWatchlists(r) ==
    /\ pc[r] = "lw_getUserWatchlists"
    /\ loc' = [loc EXCEPT ![r].body = getUserWatchlists(user[r])]
    /\ Respond(r, 200)
    /\ UNCHANGED <<tables, TMDB_API_KEY, rq, auth, user>>

(* GET /api/watchlists/:id *)

\* (mutation) the owner check without the exception for public watchlists
GetWatchlistDenied_NotOwner(watchlist, userId) == watchlist.userId # userId

\* watchlist.userId !== req.user!.id && !watchlist.isPublic
GetWatchlistDenied(watchlist, userId) ==
    watchlist.userId # userId /\ ~watchlist.isPublic

GetWatchlistGetWatchlist(r) ==
    /\ pc[r] = "gw_getWatchlist"
    /\ LET found == getWatchlist(parseInt(rq[r].idParam)) IN
          IF found = {}
          THEN Respond(r, 404) /\ UNCHANGED loc
          ELSE IF \E w \in found : GetWatchlistDenied(w, user[r])
          THEN Respond(r, 403) /\ UNCHANGED loc
          ELSE /\ loc' = [loc EXCEPT ![r].wl = found]
               /\ Goto(r, "gw_getWatchlistMovies")
    /\ UNCHANGED <<tables, TMDB_API_KEY, rq, auth, user>>

\* res.json({...watchlist, movies}): the watchlist is loc.wl, the body holds
\* the movies
GetWatchlistGetWatchlistMovies(r) ==
    /\ pc[r] = "gw_getWatchlistMovies"
    /\ loc' = [loc EXCEPT ![r].body =
                  getWatchlistMovies(parseInt(rq[r].idParam))]
    /\ Respond(r, 200)
    /\ UNCHANGED <<tables, TMDB_API_KEY, rq, auth, user>>

(* DELETE /api/watchlists/:id *)

DeleteWatchlistDelete(r) ==
    /\ pc[r] = "dw_deleteWatchlist"
    /\ userWatchlists' = deleteWatchlist(parseInt(rq[r].idParam), user[r])
    /\ IF userWatchlists' = userWatchlists
       THEN Respond(r, 404)
       ELSE Respond(r, 200)
    /\ UNCHANGED <<users, savedMovies, watchlistMovies, serial, TMDB_API_KEY, rq, auth,
                   user, loc>>

(* POST /api/watchlists/:id/movies *)

\* (mutation) an owner check that lets everybody change a public watchlist
OwnedBy_OrPublic(found, userId) ==
    found # {} /\ \A w \in found : w.userId = userId \/ w.isPublic

\* the owner check of the two membership handlers:
\* !watchlist || watchlist.userId !== req.user!.id is false
OwnedBy(found, userId) == found # {} /\ \A w \in found : w.userId = userId

AddMovieGetWatchlist(r) ==
    /\ pc[r] = "aw_getWatchlist"
    /\ LET found == getWatchlist(parseInt(rq[r].idParam)) IN
          IF ~OwnedBy(found, user[r])
          THEN Respond(r, 403) /\ UNCHANGED loc
          ELSE /\ loc' = [loc EXCEPT ![r].wl = found]
               /\ Goto(r, "aw_addMovieToWatchlist")
    /\ UNCHANGED <<tables, TMDB_API_KEY, rq, auth, user>>

\* validation.data of addToWatchlistSchema.safeParse({...req.body, watchlistId})
AddMovieValues(r) ==
    [watchlistId |-> addToWatchlistBody(rq[r]).watchlistId,
     movieId |-> rq[r].movieId]

AddMovieInsert(r) ==
    /\ pc[r] = "aw_addMovieToWatchlist"
    /\ watchlistMovies' = addMovieToWatchlist(serial.wm + 1, AddMovieValues(r))
    /\ serial' = [serial EXCEPT !.wm = @ + 1]
    /\ Respond(r, 201)
    /\ UNCHANGED <<users, savedMovies, userWatchlists, TMDB_API_KEY, rq, auth, user, loc>>

(* DELETE /api/watchlists/:id/movies/:movieId *)

RemoveMovieGetWatchlist(r) ==
    /\ pc[r] = "rw_getWatchlist"
    /\ LET found == getWatchlist(parseInt(rq[r].idParam)) IN
          IF ~OwnedBy(found, user[r])
          THEN Respond(r, 403) /\ UNCHANGED loc
          ELSE /\ loc' = [loc EXCEPT ![r].wl = found]
               /\ Goto(r, "rw_removeMovieFromWatchlist")
    /\ UNCHANGED <<tables, TMDB_API_KEY, rq, auth, user>>

RemoveMovieDelete(r) ==
    /\ pc[r] = "rw_removeMovieFromWatchlist"
    /\ watchlistMovies' =
          removeMovieFromWatchlist(parseInt(rq[r].idParam), rq[r].movieId)
    /\ IF watchlistMovies' = watchlistMovies
       THEN Respond(r, 404)
       ELSE Respond(r, 200)
    /\ UNCHANGED <<users, savedMovies, userWatchlists, serial, TMDB_API_KEY, rq, auth,
                   user, loc>>

----------------------------------------------------------------------------
(* Initial states *)

InitRequests ==
    /\ TMDB_API_KEY = "k"
    /\ rq = [r \in Reqs |-> Blank]
    /\ pc = [r \in Reqs |-> "idle"]
    /\ auth = [r \in Reqs |-> "none"]
    /\ user = [r \in Reqs |-> NoUser]
    /\ loc = [r \in Reqs |-> NoLoc]
    /\ status = [r \in Reqs |-> NoStatus]

\* the server starts on an empty database
Init ==
    /\ users = {}
    /\ savedMovies = {}
    /\ userWatchlists = {}
    /\ watchlistMovies = {}
    /\ serial = [users |-> 0, saved |-> 0, wl |-> 0, wm |-> 0]
    /\ InitRequests

\* the users table after "ann" and "bob" have registered (RegSpec reaches it)
SeedUsers ==
    {[id |-> 1, username |-> "ann", email |-> <<"ann", "@", "x", ".", "io">>,
      password |-> bcryptHash("secret1", "s1")],
     [id |-> 2, username |-> "bob", email |-> <<"bob", "@", "x", ".", "io">>,
      password |-> bcryptHash("secret1", "s1")]}

InitSeeded ==
    /\ users = SeedUsers
    /\ savedMovies = {}
    /\ userWatchlists = {}
    /\ watchlistMovies = {}
    /\ serial = [users |-> 2, saved |-> 0, wl |-> 0, wm |-> 0]
    /\ InitRequests

----------------------------------------------------------------------------
(* Request populations and specifications *)

Bearer(u) == <<"Bearer", jwtSign(u)>>

\* the other seeded user: the foreign id a request body may carry
Other(u) == IF u = 1 THEN 2 ELSE 1

\* one request of each protected route, with a body that passes validation
\* and carries a foreign userId / watchlistId
RouteRequests(h, foreign) ==
    {[Blank EXCEPT !.kind = k, !.header = h] :
        k \in {"listSaved", "profile", "listWl"}}
    \cup {[Blank EXCEPT !.kind = "save", !.header = h, !.movieId = "m1",
                        !.title = "t", !.bodyId = foreign],
          [Blank EXCEPT !.kind = "removeSaved", !.header = h, !.movieId = "m1"],
          [Blank EXCEPT !.kind = "createWl", !.header = h, !.name = "n",
                        !.bodyId = foreign],
          [Blank EXCEPT !.kind = "getWl", !.header = h, !.idParam = <<"1">>],
          [Blank EXCEPT !.kind = "deleteWl", !.header = h, !.idParam = <<"1">>],
          [Blank EXCEPT !.kind = "addWlMovie", !.header = h, !.idParam = <<"1">>,
                        !.movieId = "m1", !.title = "t", !.bodyId = 2],
          [Blank EXCEPT !.kind = "removeWlMovie", !.header = h,
                        !.idParam = <<"1">>, !.movieId = "m1"]}

MutatingKinds ==
    {"save", "removeSaved", "createWl", "deleteWl", "addWlMovie",
     "removeWlMovie"}

\* AuthSpec: slot r1 receives every protected route from both seeded users
\* and without a token, and one route under every kind of header; slot r2
\* receives the watchlist mutations of the first seeded user
AuthCap ==
    [users |-> 0, saved |-> MaxAuthRows, total |-> MaxAuthRows]

AuthPop ==
    UNION {RouteRequests(Bearer(u), Other(u)) : u \in {1, 2}}
    \cup RouteRequests(<< >>, 1)
    \cup {[Blank EXCEPT !.kind = "listSaved", !.header = h] : h \in Headers}

AuthRivalPop ==
    {q \in RouteRequests(Bearer(1), 2) :
        q.kind \in {"createWl", "deleteWl", "addWlMovie"}}

Middleware(r) == AuthGetUser(r) \/ AuthGetUserFail(r)

SavedRoutes(r) ==
    \/ SaveIsMovieSaved(r) \/ SaveSaveMovie(r)
    \/ ListSavedGetSavedMovies(r)
    \/ RemoveSavedRemoveSavedMovie(r)

ProfileRoute(r) ==
    \/ ProfileGetUser(r) \/ ProfileGetSavedMovies(r)
    \/ ProfileGetUserWatchlists(r) \/ ProfileGetWatchlistMovies(r)

WatchlistRoutes(r) ==
    \/ CreateWatchlistInsert(r)
    \/ ListWatchlistsGetUserWatchlists(r)
    \/ GetWatchlistGetWatchlist(r) \/ GetWatchlistGetWatchlistMovies(r)
    \/ DeleteWatchlistDelete(r)
    \/ AddMovieGetWatchlist(r) \/ AddMovieInsert(r)
    \/ RemoveMovieGetWatchlist(r) \/ RemoveMovieDelete(r)

AuthNext ==
    \E r \in Reqs :
        \/ Start(r, IF r = "r1" THEN AuthPop ELSE AuthRivalPop, AuthCap)
        \/ Middleware(r)
        \/ HandlerEntry(r)
        \/ StorageFail(r)
        \/ SavedRoutes(r)
        \/ ProfileRoute(r)
        \/ WatchlistRoutes(r)

AuthSpec == InitSeeded /\ [][AuthNext]_vars

\* SavedSpec: the saved-movie routes, two overlapping requests of the
\* seeded users on one movie
SavedCap ==
    [users |-> 0, saved |-> MaxSaved, total |-> MaxSaved]

SavedPop ==
    {[Blank EXCEPT !.kind = "save", !.header = Bearer(u), !.movieId = "m1",
                   !.title = "t", !.listType = l] :
        u \in {1, 2}, l \in {"absent", "watchlist"}}
    \cup {[Blank EXCEPT !.kind = "removeSaved", !.header = Bearer(u),
                        !.movieId = "m1", !.listType = l] :
            u \in {1, 2}, l \in {"absent", "watchlist"}}
    \cup {[Blank EXCEPT !.kind = "listSaved", !.header = Bearer(u)] :
            u \in {1, 2}}

SavedNext ==
    \E r \in Reqs :
        \/ Start(r, SavedPop, SavedCap)
        \/ Middleware(r)
        \/ HandlerEntry(r)
        \/ StorageFail(r)
        \/ SavedRoutes(r)

SavedSpec == InitSeeded /\ [][SavedNext]_vars

\* SeqSpec: the saved-movie routes, one request at a time (slot r1), both
\* movies and both list types
SeqPop ==
    {[Blank EXCEPT !.kind = "save", !.header = Bearer(u), !.movieId = m,
                   !.title = "t", !.listType = l] :
        u \in {1, 2}, m \in MovieIds, l \in {"absent", "favorites", "watchlist"}}
    \cup {[Blank EXCEPT !.kind = "removeSaved", !.header = Bearer(u),
                        !.movieId = m, !.listType = l] :
            u \in {1, 2}, m \in MovieIds, l \in {"absent", "watchlist"}}
    \cup {[Blank EXCEPT !.kind = "listSaved", !.header = Bearer(u),
                        !.listType = l] :
            u \in {1, 2}, l \in {"absent", "watchlist"}}

SeqNext ==
    \/ Start("r1", SeqPop, SavedCap)
    \/ Middleware("r1")
    \/ HandlerEntry("r1")
    \/ StorageFail("r1")
    \/ SavedRoutes("r1")

SeqSpec == InitSeeded /\ [][SeqNext]_vars

\* RegSpec: registration on an empty database, two overlapping requests
RegCap == [users |-> MaxUsers, saved |-> 0, total |-> 0]

RegPop ==
    {[Blank EXCEPT !.kind = "register", !.username = n, !.email = e,
                   !.password = "secret1"] :
        n \in {"ann", "bob"},
        e \in {<<"ann", "@", "x", ".", "io">>, <<"bob", "@", "x", ".", "io">>}}
    \cup {[Blank EXCEPT !.kind = "register", !.username = "al",
                        !.email = <<"ann", "@", "x", ".", "io">>,
                        !.password = "secret1"],
          [Blank EXCEPT !.kind = "register", !.username = "ann",
                        !.email = <<"ann", "x", ".", "io">>,
                        !.password = "secret1"],
          [Blank EXCEPT !.kind = "register", !.username = "ann",
                        !.email = <<"ann", "@", "x", ".", "io">>,
                        !.password = "pw"]}

RegisterRoute(r) ==
    \/ RegisterGetUserByEmail(r) \/ RegisterGetUserByUsername(r)
    \/ RegisterHash(r) \/ RegisterCreateUser(r)

RegNext ==
    \E r \in Reqs :
        \/ Start(r, RegPop, RegCap)
        \/ HandlerEntry(r)
        \/ StorageFail(r)
        \/ RegisterRoute(r)

RegSpec == Init /\ [][RegNext]_vars

\* AcctSpec: registration, login and one protected route on an empty
\* database; a protected request presents a token the server has sent
IssuedTokens == {loc[o].token : o \in {x \in Reqs : loc[x].token # NoToken}}

AcctCap == [users |-> MaxUsers, saved |-> 0, total |-> 0]

AcctPop ==
    {[Blank EXCEPT !.kind = "register", !.username = n,
                   !.email = <<n, "@", "x", ".", "io">>,
                   !.password = "secret1"] : n \in {"ann", "bob"}}
    \cup {[Blank EXCEPT !.kind = "login", !.email = <<n, "@", "x", ".", "io">>,
                        !.password = p] :
            n \in {"ann", "bob"}, p \in {"secret1", "other12"}}
    \cup {[Blank EXCEPT !.kind = "listWl", !.header = <<"Bearer", t>>] :
            t \in IssuedTokens}

LoginRoute(r) == LoginGetUserByEmail(r) \/ LoginCompare(r)

AcctNext ==
    \E r \in Reqs :
        \/ Start(r, AcctPop, AcctCap)
        \/ Middleware(r)
        \/ HandlerEntry(r)
        \/ StorageFail(r)
        \/ RegisterRoute(r)
        \/ LoginRoute(r)
        \/ ListWatchlistsGetUserWatchlists(r)

AcctSpec == Init /\ [][AcctNext]_vars

\* WlSpec: the watchlist routes and the profile, one request at a time (slot
\* r1).  The first seeded user creates private and public watchlists; both
\* users read, delete and change the watchlists 1 and 2, before they are
\* created, while they exist and after they are deleted; a client without a
\* token reads them
WlCap == [users |-> 0, saved |-> 0, total |-> MaxWlRows]

WlPop ==
    {[Blank EXCEPT !.kind = "createWl", !.header = Bearer(1), !.name = "n",
                   !.isPublic = b] : b \in BOOLEAN}
    \cup {[Blank EXCEPT !.kind = k, !.header = Bearer(u)] :
            k \in {"listWl", "profile"}, u \in {1, 2}}
    \cup {[Blank EXCEPT !.kind = k, !.header = Bearer(u), !.idParam = <<i>>] :
            k \in {"getWl", "deleteWl"}, u \in {1, 2}, i \in {"1", "2"}}
    \cup {[Blank EXCEPT !.kind = "getWl", !.idParam = <<i>>] : i \in {"1", "2"}}
    \cup {[Blank EXCEPT !.kind = "addWlMovie", !.header = Bearer(u),
                        !.idParam = <<i>>, !.movieId = m, !.title = "t"] :
            u \in {1, 2}, i \in {"1", "2"}, m \in MovieIds}
    \cup {[Blank EXCEPT !.kind = "removeWlMovie", !.header = Bearer(u),
                        !.idParam = <<i>>, !.movieId = m] :
            u \in {1, 2}, i \in {"1", "2"}, m \in MovieIds}

WlNext ==
    \/ Start("r1", WlPop, WlCap)
    \/ Middleware("r1")
    \/ HandlerEntry("r1")
    \/ StorageFail("r1")
    \/ ProfileRoute("r1")
    \/ WatchlistRoutes("r1")

WlSpec == InitSeeded /\ [][WlNext]_vars

\* CatalogSpec: the two catalog routes, with and without an API key, two
\* overlapping requests
InitCatalog ==
    /\ users = SeedUsers
    /\ savedMovies = {}
    /\ userWatchlists = {}
    /\ watchlistMovies = {}
    /\ serial = [users |-> 2, saved |-> 0, wl |-> 0, wm |-> 0]
    /\ TMDB_API_KEY \in ApiKeys
    /\ rq = [r \in Reqs |-> Blank]
    /\ pc = [r \in Reqs |-> "idle"]
    /\ auth = [r \in Reqs |-> "none"]
    /\ user = [r \in Reqs |-> NoUser]
    /\ loc = [r \in Reqs |-> NoLoc]
    /\ status = [r \in Reqs |-> NoStatus]

CatalogPop ==
    {[Blank EXCEPT !.kind = "search", !.q = q, !.genre = g, !.year = y] :
        q \in {<< >>, <<" ">>, <<"d">>, <<" ", "d", " ">>},
        g \in {"", "28"}, y \in {"", "1999"}}
    \cup {[Blank EXCEPT !.kind = "genres"]}

CatalogCap == [users |-> 0, saved |-> 0, total |-> 0]

CatalogNext ==
    \E r \in Reqs :
        \/ Start(r, CatalogPop, CatalogCap)
        \/ CatalogEntry(r)
        \/ CatalogFetch(r)
        \/ CatalogJson(r)
        \/ StorageFail(r)

CatalogSpec == InitCatalog /\ [][CatalogNext]_vars

\* AllSpec: every route, one request at a time (slot r1), with and without
\* an API key.  Every awaited call settles (it resolves or rejects), which
\* is the fairness of the steps of a request
AllCap ==
    [users |-> MaxUsers + 1, saved |-> MaxAuthRows, total |-> MaxAuthRows]

AllPop ==
    RouteRequests(Bearer(1), 2)
    \cup {[Blank EXCEPT !.kind = "listSaved", !.header = h] : h \in Headers}
    \cup {[Blank EXCEPT !.kind = "createWl", !.header = Bearer(1)],
          [Blank EXCEPT !.kind = "getWl", !.header = Bearer(1),
                        !.idParam = <<"x">>],
          [Blank EXCEPT !.kind = "register", !.username = "cat",
                        !.email = <<"cat", "@", "x", ".", "io">>,
                        !.password = "secret1"],
          [Blank EXCEPT !.kind = "register", !.username = "ann",
                        !.email = <<"cat", "@", "x", ".", "io">>,
                        !.password = "secret1"],
          [Blank EXCEPT !.kind = "login", !.password = "secret1"],
          [Blank EXCEPT !.kind = "search", !.q = <<"d">>],
          [Blank EXCEPT !.kind = "genres"]}
    \cup {[Blank EXCEPT !.kind = "login", !.email = <<n, "@", "x", ".", "io">>,
                        !.password = p] :
            n \in {"ann", "dan"}, p \in {"secret1", "other12"}}
    \cup {[Blank EXCEPT !.kind = "register", !.username = f[1], !.email = f[2],
                        !.password = f[3]] :
            f \in {<<"ca", <<"cat", "@", "x", ".", "io">>, "secret1">>,
                   <<"cat", <<"cat", "x", ".", "io">>, "secret1">>,
                   <<"cat", <<"cat", "@", "x", ".", "io">>, "12345">>}}
    \cup {[Blank EXCEPT !.kind = "save", !.header = Bearer(1), !.movieId = f[1],
                        !.title = f[2], !.rating = f[3], !.listType = f[4]] :
            f \in {<<"", "t", {}, "absent">>, <<"m1", "", {}, "absent">>,
                   <<"m1", "t", {0}, "absent">>, <<"m1", "t", {11}, "absent">>,
                   <<"m1", "t", {10}, "absent">>, <<"m1", "t", {}, "other">>}}
    \cup {[Blank EXCEPT !.kind = "addWlMovie", !.header = Bearer(1),
                        !.idParam = <<"1">>, !.movieId = f[1], !.title = f[2]] :
            f \in {<<"", "t">>, <<"m1", "">>}}

Step(r) ==
    \/ Middleware(r)
    \/ HandlerEntry(r)
    \/ StorageFail(r)
    \/ CatalogEntry(r) \/ CatalogFetch(r) \/ CatalogJson(r)
    \/ RegisterRoute(r)
    \/ LoginRoute(r)
    \/ SavedRoutes(r)
    \/ ProfileRoute(r)
    \/ WatchlistRoutes(r)

AllNext == Start("r1", AllPop, AllCap) \/ Step("r1")

AllSpec == InitCatalog /\ [][AllNext]_vars /\ WF_vars(Step("r1"))

\* ListSpec: the inserting and the listing routes of both users, one request
\* at a time (slot r1)
ListCap == [users |-> 0, saved |-> MaxWlRows, total |-> MaxWlRows]

ListPop ==
    {[Blank EXCEPT !.kind = "save", !.header = Bearer(u), !.movieId = m,
                   !.title = "t", !.listType = l] :
        u \in {1, 2}, m \in MovieIds, l \in {"absent", "watchlist"}}
    \cup {[Blank EXCEPT !.kind = "listSaved", !.header = Bearer(u),
                        !.listType = l] :
            u \in {1, 2}, l \in {"absent", "watchlist"}}
    \cup {[Blank EXCEPT !.kind = "createWl", !.header = Bearer(u), !.name = "n"] :
            u \in {1, 2}}
    \cup {[Blank EXCEPT !.kind = "listWl", !.header = Bearer(u)] : u \in {1, 2}}
    \cup {[Blank EXCEPT !.kind = "addWlMovie", !.header = Bearer(1),
                        !.idParam = <<i>>, !.movieId = m, !.title = "t"] :
            i \in {"1", "2"}, m \in MovieIds}
    \cup {[Blank EXCEPT !.kind = "getWl", !.header = Bearer(1),
                        !.idParam = <<i>>] : i \in {"1", "2"}}
    \cup {[Blank EXCEPT !.kind = "profile", !.header = Bearer(u)] : u \in {1, 2}}

ListNext ==
    \/ Start("r1", ListPop, ListCap)
    \/ Middleware("r1")
    \/ HandlerEntry("r1")
    \/ StorageFail("r1")
    \/ SaveIsMovieSaved("r1") \/ SaveSaveMovie("r1")
    \/ ListSavedGetSavedMovies("r1")
    \/ CreateWatchlistInsert("r1")
    \/ ListWatchlistsGetUserWatchlists("r1")
    \/ GetWatchlistGetWatchlist("r1") \/ GetWatchlistGetWatchlistMovies("r1")
    \/ AddMovieGetWatchlist("r1") \/ AddMovieInsert("r1")
    \/ ProfileRoute("r1")

ListSpec == InitSeeded /\ [][ListNext]_vars

----------------------------------------------------------------------------
(* Properties *)

\* the routes the specification lists with "bearer" authentication
BearerRoutes ==
    {"save", "listSaved", "removeSaved", "profile", "createWl", "listWl",
     "getWl", "deleteWl", "addWlMovie", "removeWlMovie"}

\* the handler of request r is running or has answered
InHandler(r) == pc[r] \in {"route", "done"} \cup HandlerAwaits

\* a users row with this id exists
UserRow(id) == \E u \in users : u.id = id

\* C1: on a protected route the middleware settles every request in one of
\* four ways: no token in the header -> 401; a token that jwt.verify rejects
\* (bad signature or expired) -> 403; a valid token whose userId has no users
\* row (the lookup having completed) -> 401; a valid token whose user is
\* found -> the identity of exactly that user is attached and the handler
\* runs.  The identity is attached in no other case.  (A lookup that itself
\* fails is the subject of C28.)
C1_FourOutcomes ==
    \A r \in Reqs :
        rq[r].kind \in BearerRoutes =>
            LET h == rq[r].header IN
            /\ ~HasToken(h) =>
                  auth[r] = "NoToken" /\ status[r] = 401 /\ pc[r] = "done"
            /\ (HasToken(h) /\ TokenOf(h).st # "ok") =>
                  auth[r] = "Invalid" /\ status[r] = 403 /\ pc[r] = "done"
            /\ (HasToken(h) /\ TokenOf(h).st = "ok") =>
                  /\ auth[r] \in {"pending", "LookupFailed", "NotFound",
                                  "Authenticated"}
                  /\ auth[r] = "pending" <=> pc[r] = "auth_getUser"
                  /\ auth[r] = "NotFound" =>
                        /\ ~UserRow(TokenOf(h).sub)
                        /\ status[r] = 401 /\ pc[r] = "done"
                  /\ auth[r] = "Authenticated" =>
                        /\ UserRow(TokenOf(h).sub)
                        /\ user[r] = TokenOf(h).sub
                        /\ InHandler(r)
                  /\ auth[r] \in {"NotFound", "Authenticated"} =>
                        (auth[r] = "Authenticated" <=> UserRow(TokenOf(h).sub))
            /\ user[r] # NoUser <=> auth[r] = "Authenticated"

\* C1 witness: one request was answered 401 because its valid token names no
\* user, while another was authenticated and its handler is at a storage call
C1_Witness ==
    \E r, o \in Reqs :
        /\ rq[r].kind \in BearerRoutes /\ HasToken(rq[r].header)
        /\ TokenOf(rq[r].header).st = "ok"
        /\ auth[r] = "NotFound" /\ status[r] = 401
        /\ auth[o] = "Authenticated" /\ pc[o] \in HandlerAwaits
        /\ user[o] = TokenOf(rq[o].header).sub

\* the request that takes the step
Acts(r) == pc'[r] # pc[r] \/ loc'[r] # loc[r] \/ status'[r] # status[r]

\* C2: on every bearer route a handler is at a storage call only after the
\* middleware reached Authenticated for that request, every change of
\* saved_movies, user_watchlists or watchlist_movies is the step of such a
\* handler, and a request the middleware rejects (401 or 403) changes nothing
C2_StoreOnlyAfterAuthenticated ==
    [][/\ \A r \in Reqs :
             (rq'[r].kind \in BearerRoutes /\ pc'[r] \in HandlerAwaits) =>
                 auth'[r] = "Authenticated" /\ UserRow(user'[r])
       /\ ownership' # ownership =>
             \E r \in Reqs :
                 /\ rq[r].kind \in BearerRoutes
                 /\ pc[r] \in HandlerAwaits /\ pc'[r] = "done"
                 /\ auth[r] = "Authenticated"
       /\ \A r \in Reqs :
             (rq'[r].kind \in BearerRoutes
                /\ auth'[r] \in {"NoToken", "Invalid", "NotFound", "LookupFailed"}
                /\ Acts(r)) =>
                 /\ ownership' = ownership
                 /\ status'[r] \in {401, 403} /\ pc'[r] = "done"
      ]_vars

\* C2 witness: the owner's delete of watchlist 1 is at its storage call while
\* a request without a token has been answered 401, the watchlist in place
C2_Witness ==
    \E r, o \in Reqs :
        /\ auth[r] = "NoToken" /\ status[r] = 401
        /\ rq[r].kind \in MutatingKinds
        /\ rq[o].kind = "deleteWl" /\ pc[o] = "dw_deleteWatchlist"
        /\ auth[o] = "Authenticated"
        /\ \E w \in userWatchlists : w.id = 1 /\ w.userId = user[o]

\* rows inserted or deleted by a step
Touched(before, after) == (after \ before) \cup (before \ after)

\* C3: a step taken for a request authenticated as u inserts or deletes only
\* saved_movies and user_watchlists rows whose userId is u, the id of its
\* token, and only watchlist_movies rows of the watchlist named in the URL,
\* which the handler found to be owned by u; ids carried in the body are
\* never used
C3_MutationsOwnerScoped ==
    [][\A r \in Reqs :
          (Acts(r) /\ tables' # tables) =>
              /\ auth[r] = "Authenticated"
              /\ user[r] = TokenOf(rq[r].header).sub
              /\ \A m \in Touched(savedMovies, savedMovies') :
                    m.userId = user[r]
              /\ \A w \in Touched(userWatchlists, userWatchlists') :
                    w.userId = user[r]
              /\ \A m \in Touched(watchlistMovies, watchlistMovies') :
                    /\ m.watchlistId = parseInt(rq[r].idParam)
                    /\ loc[r].wl # {}
                    /\ \A w \in loc[r].wl :
                          w.id = m.watchlistId /\ w.userId = user[r]
      ]_vars

\* C3 witness: bob's save carried ann's id in its body and was answered 201,
\* and the row belongs to bob
C3_Witness ==
    \E r \in Reqs :
        /\ rq[r].kind = "save" /\ rq[r].bodyId = 1 /\ user[r] = 2
        /\ status[r] = 201
        /\ \E m \in savedMovies : m.userId = 2
        /\ \A m \in savedMovies : m.userId # 1

\* rows of a saved_movies table for one (userId, movieId, listType)
TupleRows(table, u, m, l) ==
    {x \in table : x.userId = u /\ x.movieId = m /\ x.listType = l}

\* request r saves into the favorites list
SavesFavorite(r) ==
    rq[r].kind = "save" /\ rq[r].listType \in {"absent", "favorites"}

\* C4 (as claimed): requests that do not overlap leave at most one
\* saved_movies row per (userId, movieId, listType), for both list types
C4_OneRowPerTuple ==
    \A a, b \in savedMovies :
        (a.userId = b.userId /\ a.movieId = b.movieId
           /\ a.listType = b.listType) => a = b

\* C5: with requests one after the other, a favorites save of (user, movie)
\* is answered 409 and inserts nothing when a favorites row of that pair is
\* stored (the earlier save answered 201 and was not removed), and is
\* answered 201 and leaves exactly one such row when none is stored; 500 is
\* the only other answer (a storage call failed)
C5_SecondFavoriteSaveConflicts ==
    [][\A r \in Reqs :
          (SavesFavorite(r) /\ auth[r] = "Authenticated"
             /\ status[r] = NoStatus /\ status'[r] \notin {NoStatus, 500}) =>
              IF TupleRows(savedMovies, user[r], rq[r].movieId, "favorites") # {}
              THEN status'[r] = 409 /\ savedMovies' = savedMovies
              ELSE /\ status'[r] = 201
                   /\ Cardinality(TupleRows(savedMovies', user[r],
                                            rq[r].movieId, "favorites")) = 1
      ]_vars

\* C5 witness: a favorites save was answered 409 and the one row of the
\* first save is stored
C5_Witness ==
    \E r \in Reqs :
        /\ SavesFavorite(r) /\ status[r] = 409
        /\ Cardinality(TupleRows(savedMovies, user[r], rq[r].movieId,
                                 "favorites")) = 1

\* C6: a save that passed its pre-check inserts its row and answers 201
\* whatever saved_movies holds by then, so two overlapping saves of one
\* (user, movie, "favorites") that both passed the pre-check both answer 201
\* and leave two rows (the state of C6_Witness)
C6_InsertAfterCheckUnconditional ==
    [][\A r \in Reqs :
          (rq[r].kind = "save" /\ pc[r] = "sv_saveMovie" /\ pc'[r] = "done"
             /\ status'[r] # 500) =>
              /\ status'[r] = 201
              /\ Cardinality(TupleRows(savedMovies', user[r], rq[r].movieId,
                                       saveMovieListType(rq[r])))
                   = Cardinality(TupleRows(savedMovies, user[r], rq[r].movieId,
                                           saveMovieListType(rq[r]))) + 1
      ]_vars

\* C6 witness: both requests saved the same favorite, both were answered 201
\* and saved_movies holds two rows of the tuple
C6_Witness ==
    \E r, o \in Reqs :
        /\ r # o /\ SavesFavorite(r) /\ SavesFavorite(o)
        /\ user[r] = user[o] /\ rq[r].movieId = rq[o].movieId
        /\ status[r] = 201 /\ status[o] = 201
        /\ Cardinality(TupleRows(savedMovies, user[r], rq[r].movieId,
                                 "favorites")) = 2

SeedIds == {u.id : u \in SeedUsers}

\* C7: isMovieSaved(u, m, "favorites") is false while nothing was saved,
\* becomes true only by a saveMovie of (u, m, "favorites"), is true right
\* after every such saveMovie and false right after every
\* removeSavedMovie(u, m, "favorites")
C7_IsMovieSavedRoundTrip ==
    /\ \A u \in SeedIds, m \in MovieIds : ~isMovieSaved(u, m, "favorites")
    /\ [][/\ \A r \in Reqs :
                /\ (SavesFavorite(r) /\ pc[r] = "sv_saveMovie"
                      /\ status'[r] = 201) =>
                       isMovieSaved(user[r], rq[r].movieId, "favorites")'
                /\ (rq[r].kind = "removeSaved"
                      /\ rq[r].listType \in {"absent", "favorites"}
                      /\ pc[r] = "rs_removeSavedMovie"
                      /\ status'[r] \in {200, 404}) =>
                       ~isMovieSaved(user[r], rq[r].movieId, "favorites")'
          /\ \A u \in SeedIds, m \in MovieIds :
                (~isMovieSaved(u, m, "favorites")
                   /\ isMovieSaved(u, m, "favorites")') =>
                    \E r \in Reqs :
                        /\ SavesFavorite(r) /\ pc[r] = "sv_saveMovie"
                        /\ user[r] = u /\ rq[r].movieId = m
                        /\ status'[r] = 201
         ]_vars

\* C7 witness: a favorite was saved and then removed (answer 200), and
\* isMovieSaved is false again
C7_Witness ==
    \E r \in Reqs :
        /\ rq[r].kind = "removeSaved" /\ rq[r].listType = "absent"
        /\ status[r] = 200 /\ serial.saved >= 1
        /\ ~isMovieSaved(user[r], rq[r].movieId, "favorites")

EmailTaken(e) == \E u \in users : u.email = e
NameTaken(n) == \E u \in users : u.username = n

\* request r is a registration whose body passes registerSchema
ValidRegistration(r) == rq[r].kind = "register" /\ registerSchema(rq[r])

\* C8: users rows are never removed; a valid registration whose email is
\* stored when the handler looks it up is answered 409, and so is one whose
\* username (only) is stored; an answer 409 adds no users row, and an answer
\* 201 is given only to an email and a username that were not stored
C8_DuplicateRegistrationRejected ==
    [][/\ users \subseteq users'
       /\ \A r \in Reqs :
             ValidRegistration(r) =>
                 /\ (pc[r] = "rg_getUserByEmail" /\ pc'[r] # pc[r]
                       /\ status'[r] # 500 /\ EmailTaken(rq[r].email)) =>
                        status'[r] = 409 /\ users' = users
                 /\ (pc[r] = "rg_getUserByUsername" /\ pc'[r] # pc[r]
                       /\ status'[r] # 500 /\ NameTaken(rq[r].username)) =>
                        status'[r] = 409 /\ users' = users
                 /\ (status[r] = NoStatus /\ status'[r] = 409) =>
                        users' = users
                 /\ (status[r] = NoStatus /\ status'[r] = 201) =>
                        ~EmailTaken(rq[r].email) /\ ~NameTaken(rq[r].username)
      ]_vars

\* C8 witness: a registration was answered 409 because its username, and not
\* its email, belongs to a stored user
C8_Witness ==
    \E r \in Reqs :
        /\ ValidRegistration(r) /\ status[r] = 409
        /\ NameTaken(rq[r].username) /\ ~EmailTaken(rq[r].email)

\* C9: no two users rows share an email, a username or an id
C9_UsersUnique ==
    \A a, b \in users :
        (a.email = b.email \/ a.username = b.username \/ a.id = b.id) => a = b

\* C9 witness: two registrations overlapped on one email, both reached the
\* insert, and the table holds a single row
C9_Witness ==
    /\ serial.users = 2 /\ Cardinality(users) = 1
    /\ \A r \in Reqs :
          /\ ValidRegistration(r) /\ pc[r] = "done"
          /\ EmailTaken(rq[r].email)
    /\ \E r \in Reqs : status[r] = 201
    /\ \E r \in Reqs : status[r] = RegisterConflictStatus

\* C10 (as claimed): a registration whose email or username is stored when
\* its insert executes is answered 409
C10_InsertConflictAnswered409 ==
    [][\A r \in Reqs :
          (rq[r].kind = "register" /\ pc[r] = "rg_createUser"
             /\ serial'.users # serial.users
             /\ (EmailTaken(rq[r].email) \/ NameTaken(rq[r].username))) =>
              status'[r] = 409
      ]_vars

\* the users rows with this email whose hash was made from this password
Credentials(e, p) ==
    {u \in users : u.email = e /\ \E salt \in Salts :
                                     u.password = <<"$2b$10", salt, p>>}

\* request r was answered with a token: a registration (201) or a login (200)
Issued(r) ==
    /\ rq[r].kind \in {"register", "login"} /\ status[r] \in {200, 201}
    /\ loc[r].token # NoToken

\* C11: a valid registration whose email and username are not stored passes
\* both look-ups and its insert is answered 201 with a token for the new row's
\* id; a login with the email and password of a stored user is answered 200
\* with a token for that user's id; a registration and a login answered for
\* one email carry the same user id; and a protected request that presents a
\* token sent by either is authenticated as that user (500, a failed storage
\* or bcrypt call, and a failed middleware look-up aside)
C11_RegisterThenLogin ==
    /\ [](\A r, o \in Reqs :
            /\ Issued(r) =>
                  /\ loc[r].token.st = "ok" /\ Len(loc[r].body) = 1
                  /\ loc[r].body[1].id = loc[r].token.sub
                  /\ loc[r].body[1].email = rq[r].email
                  /\ \E u \in users : u.id = loc[r].token.sub
                                         /\ u.email = rq[r].email
            /\ (Issued(r) /\ Issued(o) /\ rq[r].email = rq[o].email) =>
                  loc[r].body[1].id = loc[o].body[1].id
            /\ (Issued(o) /\ rq[r].kind \in BearerRoutes
                  /\ rq[r].header = <<"Bearer", loc[o].token>>
                  /\ auth[r] \notin {"pending", "LookupFailed"}) =>
                  auth[r] = "Authenticated" /\ user[r] = loc[o].body[1].id)
    /\ [][\A r \in Reqs :
             /\ (ValidRegistration(r) /\ status'[r] # 500
                   /\ ~EmailTaken(rq[r].email) /\ ~NameTaken(rq[r].username)) =>
                    /\ pc[r] = "rg_getUserByEmail" =>
                           pc'[r] \in {pc[r], "rg_getUserByUsername"}
                    /\ pc[r] = "rg_getUserByUsername" =>
                           pc'[r] \in {pc[r], "rg_hash"}
             /\ (ValidRegistration(r) /\ pc[r] = "rg_createUser"
                   /\ pc'[r] = "done" /\ serial'.users # serial.users
                   /\ ~EmailTaken(rq[r].email) /\ ~NameTaken(rq[r].username)) =>
                    /\ status'[r] = 201
                    /\ loc'[r].token = [sub |-> serial'.users, st |-> "ok"]
             /\ (rq[r].kind = "login" /\ status'[r] # 500
                   /\ Credentials(rq[r].email, rq[r].password) # {}) =>
                    /\ pc[r] = "lg_getUserByEmail" =>
                           pc'[r] \in {pc[r], "lg_compare"}
                    /\ (pc[r] = "lg_compare" /\ pc'[r] # pc[r]) =>
                           /\ status'[r] = 200
                           /\ \E u \in Credentials(rq[r].email,
                                                    rq[r].password) :
                                 loc'[r].token = [sub |-> u.id, st |-> "ok"]
         ]_vars

\* C11 witness: a login was answered 200 for the user a registration created
\* under the second salt, and a protected request presenting the login's
\* token is authenticated as that user
C11_Witness ==
    \E r, o \in Reqs :
        /\ rq[o].kind = "login" /\ status[o] = 200 /\ Issued(o)
        /\ \E u \in users : /\ u.id = loc[o].body[1].id
                              /\ u.password[2] = "s2"
        /\ rq[r].kind = "listWl"
        /\ rq[r].header = <<"Bearer", loc[o].token>>
        /\ auth[r] = "Authenticated" /\ user[r] = loc[o].body[1].id

\* the user_watchlists rows with this id
WatchlistRows(table, id) == {w \in table : w.id = id}

\* the watchlist_movies rows of this watchlist
MovieRows(table, id) == {m \in table : m.watchlistId = id}

\* request r names an existing watchlist that its user does not own
ForeignWatchlist(r) ==
    /\ auth[r] = "Authenticated"
    /\ WatchlistRows(userWatchlists, parseInt(rq[r].idParam)) # {}
    /\ \A w \in WatchlistRows(userWatchlists, parseInt(rq[r].idParam)) :
          w.userId # user[r]

\* C12: deleteWatchlist(id, userId) with a userId that does not own the
\* watchlist id deletes nothing (it returns false: the handler takes its
\* `!deleted` branch) and leaves every table as it was, the watchlist's row
\* and its watchlist_movies rows included
C12_DeleteByNonOwnerNoEffect ==
    [][\A r \in Reqs :
          (rq[r].kind = "deleteWl" /\ pc[r] = "dw_deleteWatchlist"
             /\ pc'[r] = "done" /\ status'[r] # 500 /\ ForeignWatchlist(r)) =>
              /\ tables' = tables
              /\ status'[r] # 200
              /\ WatchlistRows(userWatchlists', parseInt(rq[r].idParam)) # {}
              /\ MovieRows(watchlistMovies', parseInt(rq[r].idParam))
                   = MovieRows(watchlistMovies, parseInt(rq[r].idParam))
      ]_vars

\* C12 witness: the second user's delete of the first user's watchlist has
\* been answered, and the watchlist and a movie of it are stored
C12_Witness ==
    \E r \in Reqs :
        /\ rq[r].kind = "deleteWl" /\ pc[r] = "done" /\ status[r] # 500
        /\ ForeignWatchlist(r)
        /\ MovieRows(watchlistMovies, parseInt(rq[r].idParam)) # {}

\* C13 (as claimed): DELETE /api/watchlists/:id by an authenticated user who
\* does not own the existing watchlist is answered 403
C13_DeleteByNonOwner403 ==
    [][\A r \in Reqs :
          (rq[r].kind = "deleteWl" /\ pc[r] = "dw_deleteWatchlist"
             /\ pc'[r] = "done" /\ status'[r] # 500 /\ ForeignWatchlist(r)) =>
              status'[r] = 403
      ]_vars

\* the elements of a sequence
Range(seq) == {seq[i] : i \in DOMAIN seq}

\* request r is a GET /api/watchlists/:id of an authenticated user
ReadsWatchlist(r) == rq[r].kind = "getWl" /\ auth[r] = "Authenticated"

\* C14: a GET /api/watchlists/:id of an authenticated user, its storage
\* calls completing, is answered 404 when no watchlist has the id, 403 when
\* the watchlist is private and not the requester's, and otherwise 200 with
\* the watchlist and exactly its movies; 200 is answered in no other case
C14_GetWatchlistAccess ==
    [][\A r \in Reqs :
          (ReadsWatchlist(r) /\ pc'[r] # pc[r] /\ status'[r] # 500) =>
              LET id == parseInt(rq[r].idParam)
                  rows == WatchlistRows(userWatchlists, id)
                  readable == \A w \in rows : w.userId = user[r] \/ w.isPublic
              IN  /\ pc[r] = "gw_getWatchlist" =>
                        /\ rows = {} => status'[r] = 404
                        /\ (rows # {} /\ ~readable) => status'[r] = 403
                        /\ (rows # {} /\ readable) =>
                              /\ pc'[r] = "gw_getWatchlistMovies"
                              /\ loc'[r].wl = rows
                  /\ pc[r] = "gw_getWatchlistMovies" =>
                        /\ status'[r] = 200
                        /\ Range(loc'[r].body) = MovieRows(watchlistMovies, id)
                        /\ Len(loc'[r].body)
                             = Cardinality(MovieRows(watchlistMovies, id))
                  /\ status'[r] = 200 =>
                        rows # {} /\ readable /\ loc[r].wl = rows
      ]_vars

\* C14 witness: the second user read the first user's public watchlist and
\* was answered its movie
C14_Witness ==
    \E r \in Reqs :
        /\ ReadsWatchlist(r) /\ status[r] = 200 /\ Len(loc[r].body) >= 1
        /\ \E w \in loc[r].wl : w.userId # user[r] /\ w.isPublic

\* C15 (as claimed): a GET /api/watchlists/:id that carries no bearer token
\* and names a public watchlist is served: it is answered 200 (500, a failed
\* storage call, aside)
C15_PublicWatchlistWithoutToken ==
    \A r \in Reqs :
        (rq[r].kind = "getWl" /\ ~HasToken(rq[r].header) /\ pc[r] = "done"
           /\ status[r] # 500
           /\ \E w \in WatchlistRows(userWatchlists, parseInt(rq[r].idParam)) :
                 w.isPublic) =>
            status[r] = 200

\* request r changes the membership of a watchlist
ChangesMembership(r) ==
    rq[r].kind \in {"addWlMovie", "removeWlMovie"} /\ auth[r] = "Authenticated"

\* the user of request r owns no watchlist with the id of the URL
NotOwner(r) ==
    \A w \in WatchlistRows(userWatchlists, parseInt(rq[r].idParam)) :
        w.userId # user[r]

\* C16: POST /api/watchlists/:id/movies and DELETE
\* /api/watchlists/:id/movies/:movieId of an authenticated user who does not
\* own watchlist :id, or when no watchlist has the id, are answered 403 at the
\* owner check and change no table, public watchlists included; neither
\* handler reaches its insert or delete (500, a failed storage call, aside)
C16_MembershipOwnerOnly ==
    [][\A r \in Reqs :
          (ChangesMembership(r) /\ NotOwner(r) /\ InFlight(r)
             /\ pc'[r] # pc[r] /\ status'[r] # 500) =>
              /\ pc[r] \in {"route", "aw_getWatchlist", "rw_getWatchlist"}
              /\ pc[r] # "route" => status'[r] = 403
              /\ tables' = tables
      ]_vars

\* C16 witness: the second user's add to the first user's public watchlist
\* was answered 403
C16_Witness ==
    \E r \in Reqs :
        /\ rq[r].kind = "addWlMovie" /\ auth[r] = "Authenticated"
        /\ status[r] = 403
        /\ \E w \in WatchlistRows(userWatchlists, parseInt(rq[r].idParam)) :
              w.userId # user[r] /\ w.isPublic

\* C17 (as claimed): requests that do not overlap leave at most one
\* watchlist_movies row per (watchlistId, movieId)
C17_OneRowPerMembership ==
    \A a, b \in watchlistMovies :
        (a.watchlistId = b.watchlistId /\ a.movieId = b.movieId) => a = b

\* watchlist_movies rows whose watchlist is not stored
Orphans ==
    {m \in watchlistMovies : WatchlistRows(userWatchlists, m.watchlistId) = {}}

\* request r is answered 200 by this step
Answered200(r) == status[r] = NoStatus /\ status'[r] = 200

\* C18: a DELETE /api/watchlists/:id answered 200 removes the user_watchlists
\* row of the id and nothing else: the watchlist_movies rows of the id stay
\* and getWatchlistMovies(id) returns them.  No endpoint returns such rows:
\* GET /api/watchlists/:id of an id without a row is answered 404, a 200 of
\* that route carries rows of a stored watchlist only, the watchlist list and
\* the profile carry stored watchlists only, and a new watchlist gets an id
\* that no watchlist_movies row refers to
C18_DeleteLeavesOrphans ==
    [][\A r \in Reqs :
          LET id == parseInt(rq[r].idParam) IN
          /\ (rq[r].kind = "deleteWl" /\ Answered200(r)) =>
                /\ userWatchlists' =
                      userWatchlists \ WatchlistRows(userWatchlists, id)
                /\ WatchlistRows(userWatchlists, id) # {}
                /\ WatchlistRows(userWatchlists', id) = {}
                /\ UNCHANGED <<users, savedMovies, watchlistMovies, serial>>
                /\ Range(getWatchlistMovies(id)') = MovieRows(watchlistMovies, id)
                /\ MovieRows(watchlistMovies, id) \subseteq Orphans'
          /\ (rq[r].kind = "getWl" /\ pc[r] = "gw_getWatchlist"
                /\ pc'[r] # pc[r] /\ status'[r] # 500
                /\ MovieRows(Orphans, id) # {}) =>
                status'[r] = 404
          /\ (rq[r].kind = "getWl" /\ Answered200(r)) =>
                Range(loc'[r].body) \cap Orphans = {}
          /\ (rq[r].kind \in {"listWl", "profile"} /\ Answered200(r)) =>
                /\ Range(loc'[r].body) \subseteq userWatchlists
                /\ \A w \in Range(loc'[r].body) : MovieRows(Orphans, w.id) = {}
          /\ (rq[r].kind = "createWl" /\ status[r] = NoStatus
                /\ status'[r] = 201) =>
                /\ userWatchlists' # userWatchlists
                /\ \A w \in userWatchlists' \ userWatchlists :
                      MovieRows(watchlistMovies', w.id) = {}
      ]_vars

\* C18 witness: the movie of the deleted watchlist 1 is stored, a watchlist
\* was created after the delete, and GET /api/watchlists/1 was answered 404
C18_Witness ==
    \E r \in Reqs :
        /\ rq[r].kind = "getWl" /\ status[r] = 404
        /\ MovieRows(Orphans, parseInt(rq[r].idParam)) # {}
        /\ \E w \in userWatchlists : w.id > parseInt(rq[r].idParam)

\* the watchlist_movies rows of one movie in one watchlist
MemberRows(table, id, movieId) ==
    {m \in table : m.watchlistId = id /\ m.movieId = movieId}

\* how often a listing names the movie
Listed(body, movieId) ==
    Cardinality({i \in DOMAIN body : body[i].movieId = movieId})

\* the user of request r owns the watchlist of the URL
Owner(r) ==
    /\ auth[r] = "Authenticated"
    /\ \E w \in WatchlistRows(userWatchlists, parseInt(rq[r].idParam)) :
          w.userId = user[r]

\* C19: for the owner of watchlist w (requests one after the other, storage
\* calls completing): an add of a movie m that w does not contain is answered
\* 201 and leaves exactly one row (w, m), the other rows as they were; a GET of
\* w lists every movie as often as it has rows, so m once after the add and
\* not at all after the delete; a delete of m is answered 200 and leaves no
\* row (w, m) when w contained m, and is answered 404 and changes nothing
\* when it did not
C19_AddListRemove ==
    [][\A r \in Reqs :
          (Owner(r) /\ InFlight(r) /\ pc'[r] # pc[r] /\ status'[r] # 500) =>
              LET id == parseInt(rq[r].idParam)
                  m == rq[r].movieId
                  had == MemberRows(watchlistMovies, id, m)
              IN  /\ pc[r] = "aw_getWatchlist" =>
                        pc'[r] = "aw_addMovieToWatchlist"
                  /\ (pc[r] = "aw_addMovieToWatchlist" /\ had = {}) =>
                        /\ status'[r] = 201
                        /\ watchlistMovies \subseteq watchlistMovies'
                        /\ Cardinality(watchlistMovies' \ watchlistMovies) = 1
                        /\ Cardinality(MemberRows(watchlistMovies', id, m)) = 1
                  /\ (rq[r].kind = "getWl" /\ status'[r] = 200) =>
                        \A x \in MovieIds :
                            Listed(loc'[r].body, x)
                              = Cardinality(MemberRows(watchlistMovies, id, x))
                  /\ pc[r] = "rw_getWatchlist" =>
                        pc'[r] = "rw_removeMovieFromWatchlist"
                  /\ (pc[r] = "rw_removeMovieFromWatchlist" /\ had # {}) =>
                        /\ status'[r] = 200
                        /\ watchlistMovies' = watchlistMovies \ had
                  /\ (pc[r] = "rw_removeMovieFromWatchlist" /\ had = {}) =>
                        /\ status'[r] = 404
                        /\ tables' = tables
      ]_vars

\* C19 witness: the owner added a movie, removed it again, and the GET of
\* the watchlist was answered with no movie
C19_Witness ==
    \E r \in Reqs :
        /\ rq[r].kind = "getWl" /\ Owner(r) /\ status[r] = 200
        /\ loc[r].body = << >> /\ serial.wm >= 1 /\ watchlistMovies = {}

\* the sequence lists exactly these rows, each once
ListingOf(seq, rows) == Range(seq) = rows /\ Len(seq) = Cardinality(rows)

\* the saved_movies rows of one user and one list type
SavedRows(table, u, l) == {x \in table : x.userId = u /\ x.listType = l}

\* the user_watchlists rows of one user
OwnedRows(table, u) == {w \in table : w.userId = u}

\* C20: in every state getWatchlistMovies(w) lists exactly the rows with
\* watchlistId = w, getSavedMovies(u, L) exactly the rows with userId = u and
\* listType = L, and getUserWatchlists(u) exactly the rows with userId = u,
\* each in descending order of the creation timestamp; and an insert puts
\* the new row in front of the listing of its key (adding A then B yields
\* [B, A]) and changes no other listing
C20_ListingsNewestFirst ==
    /\ [](/\ \A w \in 1 .. serial.wl + 1 :
              LET s == getWatchlistMovies(w) IN
              /\ ListingOf(s, MovieRows(watchlistMovies, w))
              /\ \A i, j \in DOMAIN s : i < j => s[i].addedAt > s[j].addedAt
          /\ \A u \in SeedIds, l \in {"favorites", "watchlist"} :
              LET s == getSavedMovies(u, l) IN
              /\ ListingOf(s, SavedRows(savedMovies, u, l))
              /\ \A i, j \in DOMAIN s : i < j => s[i].createdAt > s[j].createdAt
          /\ \A u \in SeedIds :
              LET s == getUserWatchlists(u) IN
              /\ ListingOf(s, OwnedRows(userWatchlists, u))
              /\ \A i, j \in DOMAIN s : i < j => s[i].createdAt > s[j].createdAt)
    /\ [][/\ \A w \in 1 .. serial.wl + 1 :
              LET new == MovieRows(watchlistMovies', w)
                           \ MovieRows(watchlistMovies, w)
              IN  IF new = {}
                  THEN getWatchlistMovies(w)' = getWatchlistMovies(w)
                  ELSE \E x \in new :
                         getWatchlistMovies(w)' = <<x>> \o getWatchlistMovies(w)
          /\ \A u \in SeedIds, l \in {"favorites", "watchlist"} :
              LET new == SavedRows(savedMovies', u, l)
                           \ SavedRows(savedMovies, u, l)
              IN  IF new = {}
                  THEN getSavedMovies(u, l)' = getSavedMovies(u, l)
                  ELSE \E x \in new :
                         getSavedMovies(u, l)' = <<x>> \o getSavedMovies(u, l)
          /\ \A u \in SeedIds :
              LET new == OwnedRows(userWatchlists', u)
                           \ OwnedRows(userWatchlists, u)
              IN  IF new = {}
                  THEN getUserWatchlists(u)' = getUserWatchlists(u)
                  ELSE \E x \in new :
                         getUserWatchlists(u)' = <<x>> \o getUserWatchlists(u)
          ]_vars

\* C20 witness: m1 and then m2 were added to watchlist 1, and the GET of the
\* watchlist was answered [m2, m1]
C20_Witness ==
    \E r \in Reqs :
        /\ rq[r].kind = "getWl" /\ status[r] = 200
        /\ loc[r].body = getWatchlistMovies(1)
        /\ Len(loc[r].body) = 2
        /\ loc[r].body[1].movieId = "m2" /\ loc[r].body[2].movieId = "m1"
        /\ loc[r].body[1].id > loc[r].body[2].id

\* the list type a DELETE /api/movies/saved/:movieId names
RemovedList(r) ==
    IF rq[r].listType = "absent" THEN "favorites" ELSE rq[r].listType

\* C21: the removeSavedMovie of a DELETE /api/movies/saved/:movieId deletes
\* exactly the saved_movies rows that match (userId, movieId, listType), all
\* of them, and no row of another user, movie or list type and no row of
\* another table; it returns true (the answer is 200) if and only if a row
\* matched before the call, and the answer is 404 exactly when none did
C21_RemoveSavedMovieExact ==
    [][\A r \in Reqs :
          (rq[r].kind = "removeSaved" /\ pc[r] = "rs_removeSavedMovie"
             /\ pc'[r] = "done" /\ status'[r] # 500) =>
              LET hit == TupleRows(savedMovies, user[r], rq[r].movieId,
                                   RemovedList(r))
              IN  /\ savedMovies' = savedMovies \ hit
                  /\ TupleRows(savedMovies', user[r], rq[r].movieId,
                               RemovedList(r)) = {}
                  /\ UNCHANGED <<users, userWatchlists, watchlistMovies, serial>>
                  /\ status'[r] \in {200, 404}
                  /\ status'[r] = 404 <=> hit = {}
      ]_vars

\* C21 witness: a delete from the favorites was answered 200 and the
\* watchlist-type row of the same user and movie is still stored
C21_Witness ==
    \E r \in Reqs :
        /\ rq[r].kind = "removeSaved" /\ RemovedList(r) = "favorites"
        /\ status[r] = 200
        /\ TupleRows(savedMovies, user[r], rq[r].movieId, "watchlist") # {}
        /\ TupleRows(savedMovies, user[r], rq[r].movieId, "favorites") = {}

\* the upstream endpoint the search route is specified to call
ExpectedUrl(q) ==
    IF \E i \in DOMAIN q.q : q.q[i] # " " THEN "search/movie"
    ELSE IF q.genre # "" \/ q.year # "" THEN "discover/movie"
    ELSE "movie/popular"

\* the tokens of a text that are no blanks, in their order
NonBlank(text) ==
    LET keep == {i \in DOMAIN text : text[i] # " "}
    IN  [k \in 1 .. Cardinality(keep) |->
            text[CHOOSE i \in keep :
                    Cardinality({j \in keep : j <= i}) = k]]

Statuses == {200, 201, 400, 401, 403, 404, 409, 500}

\* C22: every request ends with one response: while its middleware or
\* handler runs nothing has been sent, the step that sends the status ends
\* the request, and every request that arrived is answered (every awaited
\* call settling).  A rejected storage, bcrypt or upstream call inside a
\* handler is answered 500 with the message of the route, which does not
\* depend on the failure
C22_OneResponse ==
    /\ [](\A r \in Reqs :
            /\ InFlight(r) => status[r] = NoStatus
            /\ pc[r] = "done" => status[r] \in Statuses
            /\ (pc[r] = "done" /\ status[r] = 500) =>
                  /\ loc[r].message # ""
                  /\ loc[r].message = FailureMessage(rq[r].kind)
                       \/ (rq[r].kind \in {"search", "genres"}
                             /\ TMDB_API_KEY = "" /\ loc[r].calls = << >>))
    /\ [][\A r \in Reqs :
             /\ (InFlight(r) /\ status'[r] # NoStatus) => pc'[r] = "done"
             /\ (pc[r] \in HandlerAwaits /\ pc'[r] = "done") =>
                   status'[r] \in Statuses
         ]_vars
    /\ \A r \in Reqs : InFlight(r) ~> pc[r] = "done"

\* C22 witness: the catalog replied with a status that is not ok and the
\* search was answered 500 with the message of the route
C22_Witness ==
    \E r \in Reqs :
        /\ rq[r].kind = "search" /\ pc[r] = "done" /\ status[r] = 500
        /\ ~loc[r].upstream.ok /\ loc[r].upstream.text # << >>
        /\ loc[r].message = "Failed to search movies"

\* the profile response of request r has been sent
ProfileSent(r) ==
    rq[r].kind = "profile" /\ pc[r] = "done" /\ status[r] = 200

\* C24: in the profile response for user u, favorites holds only rows of u
\* with list type "favorites", stats.favoriteCount is the length of
\* favorites, stats.watchlistCount is the number of watchlists returned,
\* every returned watchlist has userId = u and carries one movieCount, the
\* number of watchlist_movies rows read for it; when no other request runs
\* meanwhile (requests one after the other), favorites are exactly u's
\* "favorites" rows, the watchlists exactly u's watchlists and each
\* movieCount the number of rows of that watchlist in the store.
C24_ProfileCounts ==
    \A r \in Reqs :
        ProfileSent(r) =>
            LET u == user[r]
                favorites == loc[r].favorites
                watchlists == loc[r].body
            IN  /\ \A i \in DOMAIN favorites :
                      favorites[i].userId = u /\ favorites[i].listType = "favorites"
                /\ loc[r].stats.favoriteCount = Len(favorites)
                /\ loc[r].stats.watchlistCount = Len(watchlists)
                /\ \A i \in DOMAIN watchlists :
                      /\ watchlists[i].userId = u
                      /\ \E c \in loc[r].counts :
                            /\ c.id = watchlists[i].id
                            /\ c.movieCount =
                                  Cardinality(MovieRows(watchlistMovies, c.id))
                /\ Cardinality(loc[r].counts) = Len(watchlists)
                /\ Range(favorites) = SavedRows(savedMovies, u, "favorites")
                /\ Len(favorites) =
                      Cardinality(SavedRows(savedMovies, u, "favorites"))
                /\ Range(watchlists) = OwnedRows(userWatchlists, u)
                /\ Len(watchlists) = Cardinality(OwnedRows(userWatchlists, u))

\* a profile is returned with one favorite and one watchlist holding one movie
C24_Witness ==
    \E r \in Reqs :
        /\ ProfileSent(r)
        /\ loc[r].stats = [favoriteCount |-> 1, watchlistCount |-> 1]
        /\ \E c \in loc[r].counts : c.movieCount = 1

\* what the listing endpoints return for user b: GET /api/movies/saved for
\* either list type, GET /api/watchlists, and the favorites, watchlists and
\* movie counts of GET /api/user/profile
ListingsFor(b) ==
    [favorites |-> getSavedMovies(b, "favorites"),
     watchlist |-> getSavedMovies(b, "watchlist"),
     watchlists |-> getUserWatchlists(b),
     counts |-> {[id |-> w.id, movieCount |-> Len(getWatchlistMovies(w.id))] :
                    w \in OwnedRows(userWatchlists, b)}]

\* the row the pending createWatchlist of request r inserts and returns
PendingWatchlist(r) ==
    createWatchlist(serial.wl + 1, CreateWatchlistValues(r)) \ userWatchlists

\* C25 (as claimed): requests of two different users commute, with the same
\* final store and the same two responses in either order: while a watchlist
\* creation of user a waits for its insert, a step of a request of another
\* user b leaves the row that a's request inserts and returns as it was (so
\* that it is the same row whether b's step comes first or second)
C25_RequestsCommute ==
    [][\A r, o \in Reqs :
          (/\ r # o /\ InFlight(o) /\ Acts(o)
           /\ auth[r] = "Authenticated" /\ auth[o] = "Authenticated"
           /\ user[r] # user[o]
           /\ pc[r] = "cw_createWatchlist") =>
              PendingWatchlist(r)' = PendingWatchlist(r)
      ]_vars

\* C25 (amended): a step taken for a request authenticated as a changes
\* nothing of what the listing endpoints return for any other user b, in any
\* interleaving; the ids and timestamps of inserted rows come from one
\* sequence per table for all users and depend on the order
C25_ListingsOfOthersUnchanged ==
    [][\A r \in Reqs :
          (InFlight(r) /\ Acts(r) /\ auth[r] = "Authenticated") =>
              \A b \in {1, 2} \ {user[r]} : ListingsFor(b)' = ListingsFor(b)
      ]_vars

\* bob's watchlist creation was answered 201 while a request of ann, who owns
\* a watchlist, was in flight
C25_Witness ==
    \E r, o \in Reqs :
        /\ rq[r].kind = "createWl" /\ user[r] = 2
        /\ pc[r] = "done" /\ status[r] = 201
        /\ InFlight(o) /\ auth[o] = "Authenticated" /\ user[o] = 1
        /\ OwnedRows(userWatchlists, 1) # {}
        /\ OwnedRows(userWatchlists, 2) # {}

\* the body of the request fails its schema in one of the ways listed:
\* registration with a username shorter than 3, a password shorter than 6 or
\* an email without "@"; save with an empty movieId or title, a rating outside
\* 1..10 or a listType outside the enum; watchlist creation with an empty
\* name; add-to-watchlist with an empty movieId or title
Malformed(q) ==
    \/ /\ q.kind = "register"
       /\ \/ Len(q.username) < 3 \/ Len(q.password) < 6
          \/ \A i \in DOMAIN q.email : q.email[i] # "@"
    \/ /\ q.kind = "save"
       /\ \/ q.movieId = "" \/ q.title = ""
          \/ \E x \in q.rating : x < 1 \/ x > 10
          \/ q.listType \notin {"absent", "favorites", "watchlist"}
    \/ q.kind = "createWl" /\ q.name = ""
    \/ q.kind = "addWlMovie" /\ (q.movieId = "" \/ q.title = "")

\* C26: a request whose body fails schema validation is answered 400 by its
\* handler before any storage call, and no step taken for it inserts, deletes
\* or updates a row of any table
C26_InvalidBodyRejected ==
    /\ [](\A r \in Reqs :
            Malformed(rq[r]) =>
                /\ pc[r] \notin HandlerAwaits
                /\ (pc[r] = "done" /\ InHandler(r) /\ auth[r] \in {"none", "Authenticated"})
                      => status[r] = 400)
    /\ [][\A r \in Reqs :
             (Malformed(rq[r]) /\ InFlight(r) /\ Acts(r)) =>
                 /\ tables' = tables
                 /\ pc[r] = "route" => (pc'[r] = "done" /\ status'[r] = 400)
       ]_vars

\* a save with rating 11 was answered 400 with a row in saved_movies
C26_Witness ==
    \E r \in Reqs :
        /\ rq[r].kind = "save" /\ rq[r].rating = {11}
        /\ rq[r].movieId = "m1" /\ rq[r].title = "t"
        /\ pc[r] = "done" /\ status[r] = 400
        /\ savedMovies # {}

\* C27 (as claimed): with requests one after the other, a save of (user,
\* movie) into list type L is answered on the rows of the same list type
\* alone: 409 with nothing inserted when a row (user, movie, L) is stored, 201
\* otherwise, so a "watchlist" save of a movie stored only in "favorites" is
\* answered 201 and a second "watchlist" save 409 (500 when a storage call
\* failed)
C27_SaveDecidedOnSameListType ==
    [][\A r \in Reqs :
          (rq[r].kind = "save" /\ auth[r] = "Authenticated"
             /\ status[r] = NoStatus /\ status'[r] \notin {NoStatus, 400, 500}) =>
              IF TupleRows(savedMovies, user[r], rq[r].movieId,
                           saveMovieListType(rq[r])) # {}
              THEN status'[r] = 409 /\ savedMovies' = savedMovies
              ELSE status'[r] = 201
      ]_vars

\* C28 (as claimed): when storage.getUser fails in the middleware, the token
\* having passed jwt.verify, the request is answered 500, as a request whose
\* handler's storage call fails is, and not with 401 or 403
C28_LookupFailureIs500 ==
    \A r \in Reqs :
        (auth[r] = "LookupFailed" /\ pc[r] = "done") =>
            /\ TokenOf(rq[r].header).st = "ok"
            /\ status[r] = 500

\* C29 (as claimed): whenever a step of POST /api/watchlists/:id/movies
\* inserts a watchlist_movies row, also while a DELETE /api/watchlists/:id of
\* the same owner is in flight, the watchlist the row names is stored and
\* owned by the requester at that moment
C29_InsertIntoExistingWatchlist ==
    [][\A r \in Reqs :
          (rq[r].kind = "addWlMovie" /\ InFlight(r) /\ Acts(r)) =>
              \A m \in watchlistMovies' \ watchlistMovies :
                  \E w \in userWatchlists :
                      w.id = m.watchlistId /\ w.userId = user[r]
      ]_vars

\* what the client of request r sees: status, message, token and body
Observed(r) ==
    [status |-> status[r], message |-> loc[r].message, token |-> loc[r].token,
     body |-> loc[r].body]

\* the one response of a failed login
LoginRefused ==
    [status |-> 401, message |-> "Invalid email or password",
     token |-> NoToken, body |-> << >>]

\* C30: a login with a well-formed body changes no table; when it is answered
\* (500, a failed storage or bcrypt call, aside) the answer is 200 with a
\* token of the user exactly when a users row has the email and a hash of the
\* password, and otherwise, the email unknown or the password wrong, the one
\* response 401 "Invalid email or password" without token or body
C30_LoginFailuresAlike ==
    /\ [](\A r \in Reqs :
            (rq[r].kind = "login" /\ loc[r].token # NoToken) =>
                \E u \in Credentials(rq[r].email, rq[r].password) :
                    status[r] = 200 /\ loc[r].token = jwtSign(u.id))
    /\ [][\A r \in Reqs :
             (rq[r].kind = "login" /\ loginSchema(rq[r]) /\ InFlight(r)
                /\ Acts(r)) =>
                 /\ tables' = tables
                 /\ status'[r] \notin {NoStatus, 500} =>
                       IF Credentials(rq[r].email, rq[r].password) = {}
                       THEN Observed(r)' = LoginRefused
                       ELSE status'[r] = 200
       ]_vars

\* both failures have been answered: bob's email is not stored, ann's
\* password is wrong, and the two responses are the same
C30_Witness ==
    \E r, o \in Reqs :
        /\ rq[r].kind = "login" /\ rq[o].kind = "login"
        /\ pc[r] = "done" /\ pc[o] = "done"
        /\ getUserByEmail(rq[r].email) = {}
        /\ getUserByEmail(rq[o].email) # {}
        /\ Credentials(rq[o].email, rq[o].password) = {}
        /\ Observed(r) = LoginRefused /\ Observed(o) = LoginRefused

====
